---------------------------- MODULE Spec2Model ----------------------------
(***************************************************************************)
(* Model of the unsent_letter server: the streaming relay of the AI        *)
(* providers, the authentication gates and the token exchange endpoint.    *)
(*                                                                         *)
(* Three specifications share the module's variables:                      *)
(*   SpecStream   - one streaming response of one provider                 *)
(*   SpecGate     - one request through a gate and a reply route           *)
(*   SpecExchange - one request through POST /v1/auth/exchange             *)
(* The variables of the parts a specification does not use keep their      *)
(* initial values.                                                         *)
(***************************************************************************)
EXTENDS Integers, Sequences, FiniteSets, TLC

(***************************************************************************)
(* Bounds of the model.                                                    *)
(***************************************************************************)
\* number of lines the upstream body carries
MaxLines == 2
\* the clock runs from 0 to MaxTime (seconds)
MaxTime == 2
\* number of messages of a request body
MaxMessages == 2

(***************************************************************************)
(* Wire format.  A body is a sequence of atoms (runs of bytes that a chunk *)
(* boundary does not cut in this model); a chunk boundary may fall between *)
(* any two atoms, so inside the "data: " line, inside a JSON object and    *)
(* before or after the newline.                                            *)
(***************************************************************************)
NL == "\n"
DataPrefix == "data: "
DoneSentinel == "[DONE]"
JsonClose == "}"
\* opening parts of JSON objects: content fragment a, content fragment b,
\* the provider's terminator field, fragment a together with the terminator
\* field, and an object with none of the expected fields ("{" "}" is {})
JsonOpen == {"{c:a", "{c:b", "{fin", "{c:a,fin", "{"}

Providers == {"openai", "anthropic", "ollama", "compat"}
SSEProviders == {"openai", "anthropic", "compat"}

\* the lines an SSE upstream may send
SSELines ==
  {<<DataPrefix, o, JsonClose>> : o \in JsonOpen}
    \cup {<<DataPrefix, DoneSentinel>>, <<DataPrefix, "{c:a">>, <<>>}

\* the lines an NDJSON (Ollama) upstream may send
NDJSONLines ==
  {<<o, JsonClose>> : o \in JsonOpen} \cup {<<"{c:a">>, <<>>}

WireLines(p) == IF p = "ollama" THEN NDJSONLines ELSE SSELines

RECURSIVE JoinLines(_)
\* the bytes of a sequence of lines, each followed by a newline
JoinLines(ls) ==
  IF ls = <<>> THEN <<>> ELSE Head(ls) \o <<NL>> \o JoinLines(Tail(ls))

LineSeqsUpTo(p, k) == UNION {[1..n -> WireLines(p)] : n \in 0..k}

LineSeqs(p) == LineSeqsUpTo(p, MaxLines)

\* every body of at most k lines; the last newline may be missing
BodiesUpTo(p, k) ==
  {JoinLines(ls) : ls \in LineSeqsUpTo(p, k)}
    \cup {SubSeq(JoinLines(ls), 1, Len(JoinLines(ls)) - 1) :
            ls \in LineSeqsUpTo(p, k) \ {<<>>}}

\* every body of at most MaxLines lines
Bodies(p) == BodiesUpTo(p, MaxLines)

\* the bodies followed to their end under fairness: one line fewer
ShortBodies(p) == BodiesUpTo(p, MaxLines - 1)

(***************************************************************************)
(* JavaScript helpers used by the data handlers.                           *)
(***************************************************************************)
RECURSIVE SplitLines(_)
\* s.split('\n'): the pieces between newlines, always at least one piece
SplitLines(s) ==
  IF \A i \in 1..Len(s) : s[i] # NL THEN <<s>>
  ELSE LET k == CHOOSE i \in 1..Len(s) :
                   s[i] = NL /\ \A j \in 1..(i - 1) : s[j] # NL
       IN  <<SubSeq(s, 1, k - 1)>> \o SplitLines(SubSeq(s, k + 1, Len(s)))

\* line.startsWith('data: ')
StartsWithData(line) == Len(line) >= 1 /\ line[1] = DataPrefix

\* JSON.parse succeeds: the text is exactly one object
JsonValid(data) == Len(data) = 2 /\ data[1] \in JsonOpen /\ data[2] = JsonClose

\* the fields of a parsed object the handlers read: shaped is FALSE when
\* the object lacks the expected structure (no choices array, no message,
\* no type)
JsonParse(data) ==
  [shaped |-> data[1] # "{",
   frag   |-> IF data[1] \in {"{c:a", "{c:a,fin"} THEN "a"
              ELSE IF data[1] = "{c:b" THEN "b" ELSE "",
   term   |-> data[1] \in {"{fin", "{c:a,fin"}]

(***************************************************************************)
(* The response object (express Response) as the relay uses it.            *)
(***************************************************************************)
\* res.write of one SSE event (the 'event:' line and its 'data:' line); late
\* marks a write made after res.end()
ResWrite(res, type, content) ==
  [res EXCEPT !.writes =
     Append(@, [type |-> type, content |-> content, late |-> res.ended])]

\* res.end()
ResEnd(res) == [res EXCEPT !.ended = TRUE]

WriteDone(res) == ResEnd(ResWrite(res, "done", ""))

Skip(res) == [res |-> res, ret |-> FALSE]
Return(res) == [res |-> res, ret |-> TRUE]

(***************************************************************************)
(* One iteration of the for loop of each provider's data handler: the      *)
(* response after the line and whether the handler returned.               *)
(***************************************************************************)
\* mutant of LineOpenAI: a line that fails to parse aborts the stream with
\* an 'error' event instead of being skipped
LineOpenAIAbortOnParseError(line, res) ==
  IF ~StartsWithData(line) THEN Skip(res)
  ELSE LET data == Tail(line) IN
    IF data = <<DoneSentinel>> THEN Return(WriteDone(res))
    ELSE IF ~JsonValid(data) \/ ~JsonParse(data).shaped
    THEN Return(ResEnd(ResWrite(res, "error", "Stream error")))
    ELSE LET parsed == JsonParse(data)
             r1 == IF parsed.frag # ""
                   THEN ResWrite(res, "chunk", parsed.frag) ELSE res
         IN  IF parsed.term THEN Return(WriteDone(r1)) ELSE Skip(r1)

\* OpenAIProvider.streamResponse: parsed.choices[0] throws on an object
\* without choices, and the catch skips the line
LineOpenAI(line, res) ==
  IF ~StartsWithData(line) THEN Skip(res)
  ELSE LET data == Tail(line) IN
    IF data = <<DoneSentinel>> THEN Return(WriteDone(res))
    ELSE IF ~JsonValid(data) THEN Skip(res)
    ELSE LET parsed == JsonParse(data) IN
      IF ~parsed.shaped THEN Skip(res)
      ELSE LET r1 == IF parsed.frag # ""
                     THEN ResWrite(res, "chunk", parsed.frag) ELSE res
           IN  IF parsed.term THEN Return(WriteDone(r1)) ELSE Skip(r1)

\* LocalAIProvider.streamOpenAICompatibleResponse: parsed.choices?.[0] is
\* undefined on an object without choices, nothing is written
LineCompat(line, res) ==
  IF ~StartsWithData(line) THEN Skip(res)
  ELSE LET data == Tail(line) IN
    IF data = <<DoneSentinel>> THEN Return(WriteDone(res))
    ELSE IF ~JsonValid(data) THEN Skip(res)
    ELSE LET parsed == JsonParse(data)
             r1 == IF parsed.shaped /\ parsed.frag # ""
                   THEN ResWrite(res, "chunk", parsed.frag) ELSE res
         IN  IF parsed.shaped /\ parsed.term
             THEN Return(WriteDone(r1)) ELSE Skip(r1)

\* AnthropicProvider.streamResponse: an object has one type, so the object
\* carrying the terminator (type message_stop) is no content_block_delta and
\* its delta text is not forwarded
LineAnthropic(line, res) ==
  IF ~StartsWithData(line) THEN Skip(res)
  ELSE LET data == Tail(line) IN
    IF data = <<DoneSentinel>> THEN Return(WriteDone(res))
    ELSE IF ~JsonValid(data) THEN Skip(res)
    ELSE LET parsed == JsonParse(data)
             isDelta == parsed.shaped /\ ~parsed.term
             r1 == IF isDelta /\ parsed.frag # ""
                   THEN ResWrite(res, "chunk", parsed.frag) ELSE res
         IN  IF parsed.shaped /\ parsed.term
             THEN Return(WriteDone(r1)) ELSE Skip(r1)

\* LocalAIProvider.streamOllamaResponse: every non-blank line is a JSON
\* object, there is no prefix and no sentinel
LineOllama(line, res) ==
  IF line = <<>> THEN Skip(res)
  ELSE IF ~JsonValid(line) THEN Skip(res)
  ELSE LET parsed == JsonParse(line)
           r1 == IF parsed.shaped /\ parsed.frag # ""
                 THEN ResWrite(res, "chunk", parsed.frag) ELSE res
       IN  IF parsed.shaped /\ parsed.term
           THEN Return(WriteDone(r1)) ELSE Skip(r1)

ProcessLine(p, line, res) ==
  CASE p = "openai"    -> LineOpenAI(line, res)
    [] p = "anthropic" -> LineAnthropic(line, res)
    [] p = "compat"    -> LineCompat(line, res)
    [] OTHER           -> LineOllama(line, res)

RECURSIVE ProcessLinesNewestFirst(_, _, _)
\* mutant of ProcessLines: the lines of a chunk are handled last to first
ProcessLinesNewestFirst(p, lines, res) ==
  IF lines = <<>> THEN res
  ELSE LET step == ProcessLine(p, lines[Len(lines)], res)
       IN  IF step.ret THEN step.res
           ELSE ProcessLinesNewestFirst(p, SubSeq(lines, 1, Len(lines) - 1),
                                        step.res)

RECURSIVE ProcessLines(_, _, _)
\* for (const line of lines) { ... }: a return inside the loop leaves the
\* handler, the lines after it are not looked at
ProcessLines(p, lines, res) ==
  IF lines = <<>> THEN res
  ELSE LET step == ProcessLine(p, Head(lines), res)
       IN  IF step.ret THEN step.res
           ELSE ProcessLines(p, Tail(lines), step.res)

\* response.body.on('data'): the new buffer and the response after it
OnDataHandler(p, buf, chunk, res) ==
  LET lines == SplitLines(buf \o chunk)
      n     == Len(lines)
  IN  [buffer |-> lines[n],
       res    |-> ProcessLines(p, SubSeq(lines, 1, n - 1), res)]

\* response.body.on('end')
OnEndHandler(res) == WriteDone(res)

\* a variant of the 'error' handler that leaves the response open
OnErrorHandlerNoEnd(res) == ResWrite(res, "error", "Stream error")

\* response.body.on('error')
OnErrorHandler(res) == ResEnd(ResWrite(res, "error", "Stream error"))

(***************************************************************************)
(* State.                                                                  *)
(***************************************************************************)
VARIABLES
  \* streaming relay (one streamResponse call)
  provider,      \* the provider whose streamResponse runs
  body,          \* the bytes the upstream body carries
  pos,           \* how many of them 'data' events have delivered
  bodyState,     \* "idle", "flowing", "ended", "errored", "failed"
  buffer,        \* let buffer = ''
  res,           \* the response: [writes, ended]
  headersSent,   \* res.headersSent
  clientClosed,  \* the response emitted 'close'
  \* one HTTP request through a gate and its route
  now,           \* the clock, in seconds
  gate,          \* "required", "optional" or "none"
  route,         \* "reply", "stream" or "other"
  authHeader,    \* req.headers.authorization
  reqBody,       \* req.body: [messages, provider]
  configured,    \* the AI providers whose isConfigured() is true
  gatePc,        \* "start" or "done"
  nextCalls,     \* how many times the gate called next()
  reqUser,       \* req.user
  responses,     \* the responses sent with res.status(..).json(..)
  handlerPc,     \* "idle", "awaiting" (the provider call) or "done"
  providerCalls, \* the provider methods invoked for the request
  \* one request through POST /v1/auth/exchange
  exBody,        \* req.body: [provider, idToken]
  audiences,     \* allowedAudiences of the Google and the Apple verifier
  privateKeyOk,  \* JWT_PRIVATE_KEY holds a key that imports
  jwksReachable, \* the issuer's key endpoint answers
  exPc,          \* "start", "verifying", "signing" or "done"
  exStages,      \* the stages run so far, in order
  exUserInfo,    \* userInfo of the verified identity token
  exResponses,   \* the responses sent
  jwksCache,     \* JWKSService.cache: url -> [cached, lastFetched]
  jwksCalls,     \* the getJWKS calls and key set fetches, in order
  \* the access token service from process start on
  privateKey,    \* JWT_PRIVATE_KEY: "", "malformed" or "valid"
  process,       \* "boot", "running" or "crashed"
  tokIssued,     \* the token signServerJWT returned, if any
  tokVerdicts,   \* the calls of sign and verify that have settled
  jwksResponses, \* the answers of GET /.well-known/jwks.json
  \* the key set cache over the life of the process
  jwksClients,   \* the remote key set clients created: [url, loaded,
                 \* loadedAt]
  jwksInstance,  \* url -> the client the cache entry holds (0: none)
  jwksLog,       \* the calls of the cache, in order
  jwksHeld,      \* verification -> the key set it obtained and its outcome
  \* the mobile client (ApiClient and AuthNotifier)
  mToken,        \* ApiClient._token: "none" or "jwt"
  mStorage,      \* secure storage, key server_jwt: "none" or "jwt"
  mServerUp,     \* the server answers requests
  mLoadPc,       \* ApiClient._loadConfiguration: where it is
  mCheckPc,      \* AuthNotifier._checkAuthStatus: where it is
  mOp,           \* the operation of the user in flight
  mState         \* AuthState: [isAuthenticated, isLoading, provider]

streamVars ==
  <<provider, body, pos, bodyState, buffer, res, headersSent, clientClosed>>

gateVars ==
  <<now, gate, route, authHeader, reqBody, configured, gatePc, nextCalls,
    reqUser, responses, handlerPc, providerCalls>>

exVars ==
  <<exBody, audiences, privateKeyOk, jwksReachable, exPc, exStages,
    exUserInfo, exResponses, jwksCache, jwksCalls>>

tokVars == <<privateKey, process, tokIssued, tokVerdicts, jwksResponses>>

jwksVars == <<jwksClients, jwksInstance, jwksLog, jwksHeld>>

mobVars == <<mToken, mStorage, mServerUp, mLoadPc, mCheckPc, mOp, mState>>

vars == <<streamVars, gateVars, exVars, tokVars, jwksVars, mobVars>>

NoRes == [writes |-> <<>>, ended |-> FALSE]

StreamIdle ==
  /\ body = <<>>
  /\ pos = 0
  /\ bodyState = "idle"
  /\ buffer = <<>>
  /\ res = NoRes
  /\ headersSent = FALSE
  /\ clientClosed = FALSE

\* req.headers.authorization is undefined
NoHeader == [present |-> FALSE, parts |-> <<>>]
\* req.user is undefined
NoUser == [userId |-> "undefined", provider |-> "undefined"]
NoBody == [messages |-> <<>>, provider |-> "none"]

GateIdle ==
  /\ now = 0
  /\ gate = "none"
  /\ route = "other"
  /\ authHeader = NoHeader
  /\ reqBody = NoBody
  /\ configured = {}
  /\ gatePc = "start"
  /\ nextCalls = 0
  /\ reqUser = NoUser
  /\ responses = <<>>
  /\ handlerPc = "idle"
  /\ providerCalls = <<>>

\* an identity token field that is not there, and no identity token
Absent == "absent"
NoIdToken ==
  [kind |-> "missing", iss |-> Absent, aud |-> Absent, sub |-> Absent,
   email |-> Absent, email_verified |-> Absent, key |-> Absent, exp |-> 0]
NoUserInfo == [userId |-> Absent, email |-> Absent]

\* the key endpoints of the two issuers, and an empty cache
GoogleJwksUrl == "https://www.googleapis.com/oauth2/v3/certs"
AppleJwksUrl == "https://appleid.apple.com/auth/keys"
JwksUrls == {GoogleJwksUrl, AppleJwksUrl}
NoEntry == [cached |-> FALSE, lastFetched |-> 0]
EmptyCache == [u \in JwksUrls |-> NoEntry]

ExchangeIdle ==
  /\ exBody = [provider |-> Absent, idToken |-> NoIdToken]
  /\ audiences = [google |-> {}, apple |-> {}]
  /\ privateKeyOk = TRUE
  /\ jwksReachable = TRUE
  /\ exPc = "start"
  /\ exStages = <<>>
  /\ exUserInfo = NoUserInfo
  /\ exResponses = <<>>
  /\ jwksCache = EmptyCache
  /\ jwksCalls = <<>>

\* no key set client was created yet
\* the verifications that may be in flight together
Verifications == {"v1", "v2", "v3"}

\* a verification that has not called getJWKS
NotStarted ==
  [pc |-> "idle", url |-> Absent, instance |-> 0, used |-> 0, ok |-> FALSE]

JwksIdle ==
  /\ jwksClients = <<>>
  /\ jwksInstance = [u \in JwksUrls |-> 0]
  /\ jwksLog = <<>>
  /\ jwksHeld = [v \in Verifications |-> NotStarted]

\* the access token service of a process that started with a usable key
TokenIdle ==
  /\ privateKey = "valid"
  /\ process = "running"
  /\ tokIssued = <<>>
  /\ tokVerdicts = <<>>
  /\ jwksResponses = <<>>

(***************************************************************************)
(* SpecStream: one streaming response.                                     *)
\* const AuthState(): nobody is signed in
SignedOut == [isAuthenticated |-> FALSE, isLoading |-> FALSE, provider |-> Absent]

MobileIdle ==
  /\ mToken = "none"
  /\ mStorage = "none"
  /\ mServerUp = TRUE
  /\ mLoadPc = "notcreated"
  /\ mCheckPc = "notcreated"
  /\ mOp = [kind |-> "none", provider |-> Absent]
  /\ mState = SignedOut

(***************************************************************************)
InitStream ==
  /\ provider \in Providers
  /\ StreamIdle
  /\ MobileIdle
  /\ GateIdle
  /\ ExchangeIdle
  /\ TokenIdle
  /\ JwksIdle

\* what the fetch of the upstream can give
FetchOutcomes == {"ok", "rejected", "non2xx", "nobody"}

\* what an upstream answers a request it refuses with: the status and the
\* error body
UpstreamDetails == {"401 - invalid api key", "500 - overloaded"}
NoDetail == "401 - invalid api key"

\* the message of the error the provider throws before streaming
FetchErrorMessage(outcome, detail) ==
  CASE outcome = "rejected" -> "fetch failed"
    [] outcome = "non2xx"   -> "API error: " \o detail
    [] OTHER                -> "No response body"

\* the fetch outcomes with the detail of the upstream's refusal
FetchResults ==
  {r \in [outcome : FetchOutcomes, detail : UpstreamDetails] :
     r.outcome # "non2xx" => r.detail = NoDetail}

\* a variant that sends the headers and 'connected' before the fetch
StartResponseConnectedFirst(r, outcome, detail) ==
  IF outcome = "ok" THEN ResWrite(r, "connected", "")
  ELSE ResEnd(ResWrite(ResWrite(r, "connected", ""), "error",
                       FetchErrorMessage(outcome, detail)))

\* what streamResponse does to the response once the fetch has settled:
\* writeHead and the 'connected' event, or the catch block's 'error' event
\* with the message of the error and res.end()
StartResponse(r, outcome, detail) ==
  IF outcome = "ok" THEN ResWrite(r, "connected", "")
  ELSE ResEnd(ResWrite(r, "error", FetchErrorMessage(outcome, detail)))

\* streamResponse up to the registration of the handlers: the fetch, the
\* SSE headers and the 'connected' event, or the catch block that writes an
\* 'error' event and ends the response
StreamStartWith(bodies) ==
  /\ bodyState = "idle"
  /\ \E r \in FetchResults :
       /\ res' = StartResponse(res, r.outcome, r.detail)
       /\ IF r.outcome = "ok"
          THEN /\ \E b \in bodies : body' = b
               /\ bodyState' = "flowing"
          ELSE /\ body' = body
               /\ bodyState' = "failed"
  /\ headersSent' = TRUE
  /\ UNCHANGED <<provider, pos, buffer, clientClosed>>

StreamStart == StreamStartWith(Bodies(provider))

\* the same with an upstream body of fewer lines
StreamStartShort == StreamStartWith(ShortBodies(provider))

\* the upstream body emits 'data' with the next n atoms
OnData ==
  /\ bodyState = "flowing"
  /\ \E n \in 1..(Len(body) - pos) :
       LET out == OnDataHandler(provider, buffer, SubSeq(body, pos + 1, pos + n), res)
       IN  /\ pos' = pos + n
           /\ buffer' = out.buffer
           /\ res' = out.res
  /\ UNCHANGED <<provider, body, bodyState, headersSent, clientClosed>>

\* the upstream body emits 'end' after its last byte
OnEnd ==
  /\ bodyState = "flowing"
  /\ pos = Len(body)
  /\ bodyState' = "ended"
  /\ res' = OnEndHandler(res)
  /\ UNCHANGED <<provider, body, pos, buffer, headersSent, clientClosed>>

\* the upstream body emits 'error' (at any point of the body)
OnError ==
  /\ bodyState = "flowing"
  /\ bodyState' = "errored"
  /\ res' = OnErrorHandler(res)
  /\ UNCHANGED <<provider, body, pos, buffer, headersSent, clientClosed>>

\* res.on('close'): the handler only logs
OnClose ==
  /\ headersSent
  /\ ~clientClosed
  /\ clientClosed' = TRUE
  /\ UNCHANGED <<provider, body, pos, bodyState, buffer, res, headersSent>>

NextStream ==
  \/ StreamStart /\ UNCHANGED <<gateVars, exVars, tokVars, jwksVars, mobVars>>
  \/ OnData /\ UNCHANGED <<gateVars, exVars, tokVars, jwksVars, mobVars>>
  \/ OnEnd /\ UNCHANGED <<gateVars, exVars, tokVars, jwksVars, mobVars>>
  \/ OnError /\ UNCHANGED <<gateVars, exVars, tokVars, jwksVars, mobVars>>
  \/ OnClose /\ UNCHANGED <<gateVars, exVars, tokVars, jwksVars, mobVars>>

SpecStream == InitStream /\ [][NextStream]_vars

\* the upstream body keeps emitting its events: the event loop delivers
\* 'data' until the body is read, then 'end', unless 'error' comes first
UpstreamEvent == OnData \/ OnEnd \/ OnError

NextStreamLive ==
  \/ StreamStartShort /\ UNCHANGED <<gateVars, exVars, tokVars, jwksVars, mobVars>>
  \/ OnData /\ UNCHANGED <<gateVars, exVars, tokVars, jwksVars, mobVars>>
  \/ OnEnd /\ UNCHANGED <<gateVars, exVars, tokVars, jwksVars, mobVars>>
  \/ OnError /\ UNCHANGED <<gateVars, exVars, tokVars, jwksVars, mobVars>>
  \/ OnClose /\ UNCHANGED <<gateVars, exVars, tokVars, jwksVars, mobVars>>

SpecStreamLive ==
  InitStream /\ [][NextStreamLive]_vars /\ WF_streamVars(UpstreamEvent)

(***************************************************************************)
(* Access Token Service (JWTService) as the gates use it.                  *)
(***************************************************************************)
\* this.issuer, this.audience and the key pair of JWT_PRIVATE_KEY
JwtIssuer == "https://unsent-letters.example"
JwtAudience == "unsent-letters-mobile"
ServerKey == "server-key"

\* a string that is no JWT at all: nothing signed it
GarbageToken ==
  [sub |-> "", provider |-> "", iss |-> "", aud |-> "", iat |-> 0,
   exp |-> 0, key |-> "not a JWT"]

\* the access tokens a client may present: a JWT is modelled by its claims
\* and the key that signed it
SignedTokens ==
  [sub : {"u1"}, provider : {"google", "apple"},
   iss : {JwtIssuer, "https://other.example"},
   aud : {JwtAudience, "other-audience"},
   iat : {0},
   exp : 1..MaxTime,
   key : {ServerKey, "other-key"}]

Tokens == SignedTokens \cup {GarbageToken}

\* a variant that does not compare the audience
VerifyServerJWTAnyAudience(token, t) ==
  /\ token # GarbageToken
  /\ token.key = ServerKey
  /\ token.iss = JwtIssuer
  /\ token.exp > t

\* jwtService.verifyServerJWT resolves: jose's jwtVerify checks the
\* signature against the derived public key, the issuer, the audience and
\* that exp lies after the current time
VerifyServerJWT(token, t) ==
  /\ token # GarbageToken
  /\ token.key = ServerKey
  /\ token.iss = JwtIssuer
  /\ token.aud = JwtAudience
  /\ token.exp > t

\* jwtService.extractUserContext
ExtractUserContext(payload) ==
  [userId |-> payload.sub, provider |-> payload.provider]

(***************************************************************************)
(* The reply routes (routes/ai).                                           *)
(***************************************************************************)
\* an error message, as the phrases it is made of; no error
NoError == <<>>
Includes(msg, phrase) == \E i \in 1..Len(msg) : msg[i] = phrase

\* MAX_LETTER_CHARS (default)
MaxLetterChars == 6000

AIProviders == {"openai", "anthropic", "local"}
Roles == {"system", "user", "assistant"}

\* aiRequestSchema.parse succeeds; a message is [role, len], len the length
\* of its content
SchemaOk(b) ==
  /\ Len(b.messages) >= 1
  /\ \A i \in 1..Len(b.messages) :
       b.messages[i].role \in Roles /\ b.messages[i].len >= 1
  /\ b.provider \in AIProviders \cup {"none"}

RECURSIVE UserChars(_)
\* the length of the joined contents of the user-role messages
UserChars(messages) ==
  IF messages = <<>> THEN 0
  ELSE (IF Head(messages).role = "user" THEN Head(messages).len ELSE 0)
         + UserChars(Tail(messages))

\* a variant that rejects a total of exactly the ceiling
ContentTooLongAtCeiling(messages) == UserChars(messages) >= MaxLetterChars

\* validateContentLength throws
ContentTooLong(messages) == UserChars(messages) > MaxLetterChars

\* a variant that falls back to the priority order when the provider the
\* request names is not configured
GetAIProviderWithFallback(providerName, conf) ==
  IF providerName \in AIProviders /\ providerName \in conf THEN providerName
  ELSE IF "openai" \in conf THEN "openai"
  ELSE IF "anthropic" \in conf THEN "anthropic"
  ELSE IF "local" \in conf THEN "local"
  ELSE "throw"

\* getAIProvider: the provider object, or "throw" (No AI provider configured)
GetAIProvider(providerName, conf) ==
  IF providerName \in AIProviders THEN providerName
  ELSE IF "openai" \in conf THEN "openai"
  ELSE IF "anthropic" \in conf THEN "anthropic"
  ELSE IF "local" \in conf THEN "local"
  ELSE "throw"

\* the length of the default system prompt
SystemPromptChars == 759

\* a variant of addSystemPrompt that prepends the prompt to every input
AddSystemPromptAlways(messages) ==
  <<[role |-> "system", len |-> SystemPromptChars]>> \o messages

\* addSystemPrompt: the default system prompt is put in front unless the
\* messages hold a system message
AddSystemPrompt(messages) ==
  IF \E i \in 1..Len(messages) : messages[i].role = "system" THEN messages
  ELSE <<[role |-> "system", len |-> SystemPromptChars]>> \o messages

\* the text of the error field of a response that does not depend on the
\* request
FixedText == <<"fixed text">>

\* res.status(status).json({error, code})
RespondText(status, code, error) ==
  responses' = Append(responses,
                      [status |-> status, code |-> code, error |-> error])

Respond(status, code) == RespondText(status, code, FixedText)

\* the message of the error validateContentLength throws
ContentTooLongMessage ==
  <<"Letter ", "content too long", ". Maximum characters allowed.">>

\* m.role !== 'system'
NotSystem(m) == m.role # "system"

\* messages.find(m => m.role === 'system'): the index of the first system
\* message, 0 when there is none
FindSystem(messages) ==
  IF \A i \in 1..Len(messages) : NotSystem(messages[i]) THEN 0
  ELSE CHOOSE i \in 1..Len(messages) :
         /\ ~NotSystem(messages[i])
         /\ \A j \in 1..(i - 1) : NotSystem(messages[j])

\* AnthropicProvider.convertMessages: the content of the first system
\* message as the system field (a sequence of at most one content), and the
\* messages that pass filter(m => m.role !== 'system')
ConvertMessages(messages) ==
  [system   |-> IF FindSystem(messages) = 0 THEN <<>>
                ELSE <<messages[FindSystem(messages)].len>>,
   messages |-> SelectSeq(messages, NotSystem)]

\* no request is built
NoRequest == [system |-> <<>>, messages |-> <<>>]

\* the system field and the messages of the body a provider posts upstream:
\* OpenAI and the local provider post the messages as they are
RequestBody(p, messages) ==
  IF p = "anthropic" THEN ConvertMessages(messages)
  ELSE [system |-> <<>>, messages |-> messages]

\* the message of the error getAIProvider throws when no provider is
\* configured; it does not contain 'not configured'
NoProviderMessage == <<"No AI provider configured">>

\* the message of the error a provider that is not configured throws
NotConfiguredMessage(p) == <<p, " ", "not configured">>

\* the catch block of the reply routes for an Error that is no ZodError:
\* the two branches the routes share, then 500 AI_ERROR on /reply and, on
\* /reply/stream, 500 STREAM_ERROR or an 'error' event by res.headersSent
ReplyCatch(msg) ==
  IF Includes(msg, "content too long")
  THEN RespondText(400, "CONTENT_TOO_LONG", msg) /\ UNCHANGED res
  ELSE IF Includes(msg, "not configured")
  THEN Respond(503, "SERVICE_UNAVAILABLE") /\ UNCHANGED res
  ELSE IF route = "reply"
  THEN Respond(500, "AI_ERROR") /\ UNCHANGED res
  ELSE IF ~headersSent
  THEN Respond(500, "STREAM_ERROR") /\ UNCHANGED res
  ELSE /\ res' = ResEnd(ResWrite(res, "error", "Streaming failed"))
       /\ UNCHANGED responses

\* what an upstream answers a request for a reply that it refuses: the
\* status and the error body, as phrases
ReplyDetails ==
  {<<"401 - invalid api key">>, <<"500 - overloaded">>,
   <<"400 - ", "content too long">>, <<"503 - provider ", "not configured">>}

\* how the fetch of getResponse can settle
ReplyResults ==
  {r \in [outcome : {"reply", "rejected", "non2xx", "nochoices"},
          detail : ReplyDetails] :
     r.outcome # "non2xx" => r.detail = <<"401 - invalid api key">>}

\* the message of the error getResponse throws
GetResponseError(outcome, detail) ==
  <<"request failed: ">> \o
    (CASE outcome = "rejected" -> <<"fetch failed">>
       [] outcome = "non2xx"   -> <<"API error: ">> \o detail
       [] OTHER                -> <<"No response">>)

\* the handler of a reply route up to its await of the provider: what the
\* try block and the catch block do for the request body
RouteHandler(method) ==
  /\ nextCalls > 0
  /\ handlerPc = "idle"
  /\ IF ~SchemaOk(reqBody)
     THEN /\ Respond(400, "VALIDATION_ERROR")
          /\ handlerPc' = "done"
          /\ UNCHANGED <<providerCalls, res>>
     ELSE IF ContentTooLong(reqBody.messages)
     THEN /\ ReplyCatch(ContentTooLongMessage)
          /\ handlerPc' = "done"
          /\ UNCHANGED providerCalls
     ELSE LET p == GetAIProvider(reqBody.provider, configured) IN
       IF p = "throw"
       THEN /\ ReplyCatch(NoProviderMessage)
            /\ handlerPc' = "done"
            /\ UNCHANGED providerCalls
       ELSE /\ providerCalls' =
                 Append(providerCalls,
                        [provider |-> p, method |-> method,
                         messages |-> AddSystemPrompt(reqBody.messages),
                         request  |->
                           IF p \in configured
                           THEN RequestBody(p, AddSystemPrompt(reqBody.messages))
                           ELSE NoRequest])
            /\ IF p \in configured
               THEN handlerPc' = "awaiting" /\ UNCHANGED <<responses, res>>
               \* the provider method throws '... not configured'
               ELSE handlerPc' = "done" /\ ReplyCatch(NotConfiguredMessage(p))
  /\ UNCHANGED <<now, gate, route, authHeader, reqBody, configured, gatePc,
                 nextCalls, reqUser>>
  /\ UNCHANGED <<provider, body, pos, bodyState, buffer, headersSent,
                 clientClosed>>

\* router.post('/reply', authRequired, ...)
ReplyHandler ==
  /\ route = "reply"
  /\ RouteHandler("getResponse")

\* router.post('/reply/stream', authRequired, ...); what streamResponse does
\* once invoked is SpecStream
StreamHandler ==
  /\ route = "stream"
  /\ RouteHandler("streamResponse")

\* provider.getResponse settles: the reply is sent, or the catch block
\* answers the error the provider threw
ReplySettles ==
  /\ route = "reply"
  /\ handlerPc = "awaiting"
  /\ handlerPc' = "done"
  /\ \E r \in ReplyResults :
       IF r.outcome = "reply" THEN Respond(200, "OK") /\ UNCHANGED res
       ELSE ReplyCatch(GetResponseError(r.outcome, r.detail))
  /\ UNCHANGED <<now, gate, route, authHeader, reqBody, configured, gatePc,
                 nextCalls, reqUser, providerCalls>>
  /\ UNCHANGED <<provider, body, pos, bodyState, buffer, headersSent,
                 clientClosed>>

\* provider.streamResponse settles: the fetch has settled and the provider
\* has written the start of the stream or its catch block's 'error' event;
\* the promise resolves either way, so the catch block of the route does
\* not run. The events of the body that follow are SpecStream
StreamSettles ==
  /\ route = "stream"
  /\ handlerPc = "awaiting"
  /\ handlerPc' = "done"
  /\ \E r \in FetchResults :
       /\ res' = StartResponse(res, r.outcome, r.detail)
       /\ bodyState' = (IF r.outcome = "ok" THEN "flowing" ELSE "failed")
  /\ headersSent' = TRUE
  /\ UNCHANGED <<provider, body, pos, buffer, clientClosed>>
  /\ UNCHANGED <<now, gate, route, authHeader, reqBody, configured, gatePc,
                 nextCalls, reqUser, responses, providerCalls>>

(***************************************************************************)
(* The authentication gates (middleware).                                  *)
(***************************************************************************)
\* the Authorization header: absent, or the scheme part followed by the
\* token part
HeaderOf(parts) == [present |-> TRUE, parts |-> parts]

Headers ==
  {NoHeader}
    \cup {HeaderOf(<<>>), HeaderOf(<<"Bearer">>), HeaderOf(<<"Bearer ">>)}
    \cup {HeaderOf(<<"bearer ", GarbageToken>>),
          HeaderOf(<<"Basic ", GarbageToken>>)}
    \cup {HeaderOf(<<"Bearer ", t>>) : t \in Tokens}

\* !authHeader: undefined or the empty string
HeaderFalsy(h) == ~h.present \/ h.parts = <<>>

\* authHeader.startsWith('Bearer ')
StartsWithBearer(h) == Len(h.parts) >= 1 /\ h.parts[1] = "Bearer "

\* authHeader.substring(7)
TokenPart(h) == Tail(h.parts)

\* mutant of AuthRequired: a token that fails verification is let through
\* (the catch block calls next)
AuthRequiredFailOpen ==
  /\ gate = "required"
  /\ gatePc = "start"
  /\ gatePc' = "done"
  /\ IF HeaderFalsy(authHeader)
     THEN Respond(401, "MISSING_AUTH_HEADER") /\ UNCHANGED <<nextCalls, reqUser>>
     ELSE IF ~StartsWithBearer(authHeader)
     THEN Respond(401, "INVALID_AUTH_FORMAT") /\ UNCHANGED <<nextCalls, reqUser>>
     ELSE IF TokenPart(authHeader) = <<>>
     THEN Respond(401, "MISSING_TOKEN") /\ UNCHANGED <<nextCalls, reqUser>>
     ELSE IF VerifyServerJWT(TokenPart(authHeader)[1], now)
     THEN /\ reqUser' = ExtractUserContext(TokenPart(authHeader)[1])
          /\ nextCalls' = nextCalls + 1
          /\ UNCHANGED responses
     ELSE /\ nextCalls' = nextCalls + 1
          /\ UNCHANGED <<responses, reqUser>>
  /\ UNCHANGED <<now, gate, route, authHeader, reqBody, configured,
                 handlerPc, providerCalls>>

\* mutant of AuthRequired: the empty-token check is missing, an empty token
\* goes to verification and fails there
AuthRequiredNoTokenCheck ==
  /\ gate = "required"
  /\ gatePc = "start"
  /\ gatePc' = "done"
  /\ IF HeaderFalsy(authHeader)
     THEN Respond(401, "MISSING_AUTH_HEADER") /\ UNCHANGED <<nextCalls, reqUser>>
     ELSE IF ~StartsWithBearer(authHeader)
     THEN Respond(401, "INVALID_AUTH_FORMAT") /\ UNCHANGED <<nextCalls, reqUser>>
     ELSE IF TokenPart(authHeader) # <<>>
             /\ VerifyServerJWT(TokenPart(authHeader)[1], now)
     THEN /\ reqUser' = ExtractUserContext(TokenPart(authHeader)[1])
          /\ nextCalls' = nextCalls + 1
          /\ UNCHANGED responses
     ELSE Respond(401, "INVALID_TOKEN") /\ UNCHANGED <<nextCalls, reqUser>>
  /\ UNCHANGED <<now, gate, route, authHeader, reqBody, configured,
                 handlerPc, providerCalls>>

\* authRequired
AuthRequired ==
  /\ gate = "required"
  /\ gatePc = "start"
  /\ gatePc' = "done"
  /\ IF HeaderFalsy(authHeader)
     THEN Respond(401, "MISSING_AUTH_HEADER") /\ UNCHANGED <<nextCalls, reqUser>>
     ELSE IF ~StartsWithBearer(authHeader)
     THEN Respond(401, "INVALID_AUTH_FORMAT") /\ UNCHANGED <<nextCalls, reqUser>>
     ELSE IF TokenPart(authHeader) = <<>>
     THEN Respond(401, "MISSING_TOKEN") /\ UNCHANGED <<nextCalls, reqUser>>
     ELSE IF VerifyServerJWT(TokenPart(authHeader)[1], now)
     THEN /\ reqUser' = ExtractUserContext(TokenPart(authHeader)[1])
          /\ nextCalls' = nextCalls + 1
          /\ UNCHANGED responses
     ELSE Respond(401, "INVALID_TOKEN") /\ UNCHANGED <<nextCalls, reqUser>>
  /\ UNCHANGED <<now, gate, route, authHeader, reqBody, configured,
                 handlerPc, providerCalls>>

\* mutant of AuthOptional: the user context is taken from the token before
\* it is verified and kept when verification fails
AuthOptionalAttachUnverified ==
  /\ gate = "optional"
  /\ gatePc = "start"
  /\ gatePc' = "done"
  /\ nextCalls' = nextCalls + 1
  /\ IF HeaderFalsy(authHeader) \/ ~StartsWithBearer(authHeader)
     THEN UNCHANGED reqUser
     ELSE IF TokenPart(authHeader) = <<>>
     THEN UNCHANGED reqUser
     ELSE reqUser' = ExtractUserContext(TokenPart(authHeader)[1])
  /\ UNCHANGED <<now, route, gate, authHeader, reqBody, configured, responses,
                 handlerPc, providerCalls>>

\* authOptional
AuthOptional ==
  /\ gate = "optional"
  /\ gatePc = "start"
  /\ gatePc' = "done"
  /\ nextCalls' = nextCalls + 1
  /\ IF HeaderFalsy(authHeader) \/ ~StartsWithBearer(authHeader)
     THEN UNCHANGED reqUser
     ELSE IF TokenPart(authHeader) = <<>>
     THEN UNCHANGED reqUser
     ELSE IF VerifyServerJWT(TokenPart(authHeader)[1], now)
     THEN reqUser' = ExtractUserContext(TokenPart(authHeader)[1])
     ELSE UNCHANGED reqUser
  /\ UNCHANGED <<now, route, gate, authHeader, reqBody, configured, responses,
                 handlerPc, providerCalls>>

\* time passes before the request reaches its gate
Tick ==
  /\ gatePc = "start"
  /\ now < MaxTime
  /\ now' = now + 1
  /\ UNCHANGED <<gate, route, authHeader, reqBody, configured, gatePc,
                 nextCalls, reqUser, responses, handlerPc, providerCalls>>

(***************************************************************************)
(* SpecGate: one request through a gate and, behind the required gate, a   *)
(* reply route.                                                            *)
(***************************************************************************)
\* request bodies: user messages of length 0 (rejected by the schema), 1 and
\* MaxLetterChars, so that two of them exceed the ceiling
GateBodies ==
  {[messages |-> ms, provider |-> "none"] :
     ms \in UNION {[1..n -> [role : {"user"}, len : {0, 1, MaxLetterChars}]] :
                     n \in 0..MaxMessages}}

InitGate ==
  /\ provider = "openai"
  /\ StreamIdle
  /\ MobileIdle
  /\ ExchangeIdle
  /\ TokenIdle
  /\ JwksIdle
  /\ now = 0
  /\ authHeader \in Headers
  /\ \/ /\ gate = "required"
        /\ route \in {"reply", "stream"}
        /\ reqBody \in GateBodies
        /\ configured \in SUBSET AIProviders
     \/ /\ gate = "optional"
        /\ route = "other"
        /\ reqBody = NoBody
        /\ configured = {}
  /\ gatePc = "start"
  /\ nextCalls = 0
  /\ reqUser = NoUser
  /\ responses = <<>>
  /\ handlerPc = "idle"
  /\ providerCalls = <<>>

NextGate ==
  \/ Tick /\ UNCHANGED <<streamVars, exVars, tokVars, jwksVars, mobVars>>
  \/ AuthRequired /\ UNCHANGED <<streamVars, exVars, tokVars, jwksVars, mobVars>>
  \/ AuthOptional /\ UNCHANGED <<streamVars, exVars, tokVars, jwksVars, mobVars>>
  \/ ReplyHandler /\ UNCHANGED <<exVars, tokVars, jwksVars, mobVars>>
  \/ StreamHandler /\ UNCHANGED <<exVars, tokVars, jwksVars, mobVars>>
  \/ ReplySettles /\ UNCHANGED <<exVars, tokVars, jwksVars, mobVars>>
  \/ StreamSettles /\ UNCHANGED <<exVars, tokVars, jwksVars, mobVars>>

SpecGate == InitGate /\ [][NextGate]_vars

(***************************************************************************)
(* Identity verifiers (GoogleAuthService, AppleAuthService) and the token  *)
(* exchange endpoint (routes/auth).                                        *)
(***************************************************************************)
GoogleIssuer == "https://accounts.google.com"
AppleIssuer == "https://appleid.apple.com"
\* the keys published at the issuers' JWKS endpoints
GoogleKey == "google-key"
AppleKey == "apple-key"

\* JWT_EXPIRES_IN (default)
ExpiresIn == 3600

\* identity tokens: a JWT is modelled by its claims and the key that signed
\* it; email_verified is a boolean, a string or absent
JwtIdTokens ==
  [kind : {"jwt"},
   iss : {GoogleIssuer, AppleIssuer},
   aud : {"client-ios", "client-android", "other-client"},
   sub : {"sub-1", Absent},
   email : {"user@example.com", Absent},
   email_verified : {"bool:true", "bool:false", "str:true", "str:false", Absent},
   key : {GoogleKey, AppleKey, "other-key"},
   exp : {0, 1}]

\* the idToken field of a request body: missing, the empty string, a string
\* that is no JWT, or a JWT
IdTokens ==
  JwtIdTokens \cup {NoIdToken, [NoIdToken EXCEPT !.kind = "empty"],
                    [NoIdToken EXCEPT !.kind = "garbage"]}

\* a variant of the schema without the minimum length of idToken
ExchangeSchemaOkNoMinLength(b) ==
  /\ b.provider \in {"google", "apple"}
  /\ b.idToken.kind \in {"empty", "garbage", "jwt"}

\* tokenExchangeSchema.parse succeeds
ExchangeSchemaOk(b) ==
  /\ b.provider \in {"google", "apple"}
  /\ b.idToken.kind \in {"garbage", "jwt"}

\* isConfigured() of the verifier of a provider
VerifierConfigured(p, auds) == auds[p] # {}

\* a variant that accepts any audience
JwtVerifyRemoteAnyAudience(tok, key, issuer, auds, reachable, t) ==
  /\ tok.kind = "jwt"
  /\ reachable
  /\ tok.key = key
  /\ tok.iss = issuer
  /\ tok.exp > t

\* jose's jwtVerify(idToken, jwks, {issuer, audience}) resolves: the key set
\* can be fetched, one of its keys made the signature, the issuer is the
\* given one, the audience is one of the given ones, exp lies in the future
JwtVerifyRemote(tok, key, issuer, auds, reachable, t) ==
  /\ tok.kind = "jwt"
  /\ reachable
  /\ tok.key = key
  /\ tok.iss = issuer
  /\ tok.aud \in auds
  /\ tok.exp > t

\* JavaScript truthiness of an email_verified claim
Truthy(v) == v \in {"bool:true", "str:true", "str:false"}

\* the message of the error jwtVerify rejects with: the token is parsed,
\* then the key is looked up in the key set, then the signature and the
\* claims are checked
JwtVerifyRemoteError(tok, key, issuer, auds, reachable, t) ==
  IF JwtVerifyRemote(tok, key, issuer, auds, reachable, t) THEN NoError
  ELSE IF tok.kind # "jwt" THEN <<"Invalid Compact JWS">>
  ELSE IF ~reachable THEN <<"fetch failed">>
  ELSE IF tok.key # key THEN <<"signature ", "verification failed">>
  ELSE IF tok.iss # issuer THEN <<"unexpected iss claim value">>
  ELSE IF tok.aud \notin auds THEN <<"unexpected aud claim value">>
  ELSE <<"exp claim timestamp check failed">>

\* a variant that rethrows a failed fetch of the key set as it is
GoogleVerifyErrorUnwrapped(tok, auds, reachable, t) ==
  IF auds = {} THEN <<"Google Sign-In ", "not configured">>
  ELSE LET cause ==
             IF ~JwtVerifyRemote(tok, GoogleKey, GoogleIssuer, auds,
                                 reachable, t)
             THEN JwtVerifyRemoteError(tok, GoogleKey, GoogleIssuer, auds,
                                       reachable, t)
             ELSE IF tok.sub = Absent
             THEN <<"Invalid token: missing subject">>
             ELSE IF ~Truthy(tok.email_verified)
             THEN <<"Email not verified">>
             ELSE NoError
       IN IF cause = NoError THEN NoError
          ELSE IF cause = <<"fetch failed">> THEN cause
          ELSE <<"Google token ", "verification failed", ": ">> \o cause

\* the message of the error GoogleAuthService.verifyIdToken throws
GoogleVerifyError(tok, auds, reachable, t) ==
  IF auds = {} THEN <<"Google Sign-In ", "not configured">>
  ELSE LET cause ==
             IF ~JwtVerifyRemote(tok, GoogleKey, GoogleIssuer, auds,
                                 reachable, t)
             THEN JwtVerifyRemoteError(tok, GoogleKey, GoogleIssuer, auds,
                                       reachable, t)
             ELSE IF tok.sub = Absent
             THEN <<"Invalid token: missing subject">>
             ELSE IF ~Truthy(tok.email_verified)
             THEN <<"Email not verified">>
             ELSE NoError
       IN IF cause = NoError THEN NoError
          ELSE <<"Google token ", "verification failed", ": ">> \o cause

\* GoogleAuthService.verifyIdToken resolves
GoogleVerifyIdToken(tok, auds, reachable, t) ==
  GoogleVerifyError(tok, auds, reachable, t) = NoError

\* a variant that takes an absent email_verified as unverified
IsEmailVerifiedAbsentFalse(v) ==
  CASE v \in {"bool:true", "bool:false"} -> v = "bool:true"
    [] v \in {"str:true", "str:false"}   -> v = "str:true"
    [] OTHER                             -> FALSE

\* AppleAuthService.isEmailVerified
IsEmailVerified(v) ==
  CASE v \in {"bool:true", "bool:false"} -> v = "bool:true"
    [] v \in {"str:true", "str:false"}   -> v = "str:true"
    [] OTHER                             -> TRUE

\* the message of the error AppleAuthService.verifyIdToken throws
AppleVerifyError(tok, auds, reachable, t) ==
  IF auds = {} THEN <<"Apple Sign-In ", "not configured">>
  ELSE LET cause ==
             IF ~JwtVerifyRemote(tok, AppleKey, AppleIssuer, auds,
                                 reachable, t)
             THEN JwtVerifyRemoteError(tok, AppleKey, AppleIssuer, auds,
                                       reachable, t)
             ELSE IF tok.sub = Absent
             THEN <<"Invalid token: missing subject">>
             ELSE IF tok.email # Absent /\ ~IsEmailVerified(tok.email_verified)
             THEN <<"Email not verified">>
             ELSE NoError
       IN IF cause = NoError THEN NoError
          ELSE <<"Apple token ", "verification failed", ": ">> \o cause

\* AppleAuthService.verifyIdToken resolves
AppleVerifyIdToken(tok, auds, reachable, t) ==
  AppleVerifyError(tok, auds, reachable, t) = NoError

VerifyIdTokenError(p, tok, auds, reachable, t) ==
  IF p = "google" THEN GoogleVerifyError(tok, auds["google"], reachable, t)
  ELSE AppleVerifyError(tok, auds["apple"], reachable, t)

VerifyIdToken(p, tok, auds, reachable, t) ==
  IF p = "google" THEN GoogleVerifyIdToken(tok, auds["google"], reachable, t)
  ELSE AppleVerifyIdToken(tok, auds["apple"], reachable, t)

\* JWKSService.CACHE_TTL, in milliseconds
CACHE_TTL == 3600000

JwksUrlOf(p) == IF p = "google" THEN GoogleJwksUrl ELSE AppleJwksUrl

\* a variant whose cache holds the key set of one url only
CacheHitSingleSlot(cache, url, ms) ==
  /\ cache[url].cached /\ (ms - cache[url].lastFetched) < CACHE_TTL
  /\ \A u \in JwksUrls \ {url} : ~cache[u].cached

\* a variant that still serves an entry whose age is exactly the TTL
CacheHitAtTTL(cache, url, ms) ==
  cache[url].cached /\ (ms - cache[url].lastFetched) <= CACHE_TTL

\* getJWKS returns the cached key set of the url
CacheHit(cache, url, ms) ==
  cache[url].cached /\ (ms - cache[url].lastFetched) < CACHE_TTL

\* JWKSService.getJWKS: the cache after the call
GetJWKS(cache, url, ms) ==
  IF CacheHit(cache, url, ms) THEN cache
  ELSE [cache EXCEPT ![url] = [cached |-> TRUE, lastFetched |-> ms]]

\* one call of a verifier's verifyIdToken: the error it throws, the cache
\* it leaves and the calls it made of getJWKS and of the key endpoint.
\* loaded: the key set getJWKS returned holds the issuer's keys already
VerifierRun(p, tok, auds, cache, loaded, reachable, t) ==
  IF auds[p] = {}
  THEN [error |-> VerifyIdTokenError(p, tok, auds, reachable, t),
        cache |-> cache, calls |-> <<>>]
  ELSE [error |-> VerifyIdTokenError(p, tok, auds, loaded \/ reachable, t),
        cache |-> GetJWKS(cache, JwksUrlOf(p), t * 1000),
        calls |-> <<[op |-> "getJWKS", url |-> JwksUrlOf(p)]>> \o
                  (IF tok.kind = "jwt" /\ ~loaded
                   THEN <<[op |-> "fetch", url |-> JwksUrlOf(p)]>>
                   ELSE <<>>)]

\* a variant that takes the email as the user id
ExtractUserInfoEmailAsId(payload) ==
  [userId |-> payload.email, email |-> payload.email]

\* extractUserInfo of both verifiers (the fields the exchange uses)
ExtractUserInfo(payload) == [userId |-> payload.sub, email |-> payload.email]

\* a variant of signServerJWT that counts the lifetime from the epoch
SignServerJWTAbsoluteExp(sub, p, t) ==
  [sub |-> sub, provider |-> p, iss |-> JwtIssuer, aud |-> JwtAudience,
   iat |-> t, exp |-> ExpiresIn, key |-> ServerKey]

\* jwtService.signServerJWT: the claims and the signing key of the token
SignServerJWT(sub, p, t) ==
  [sub |-> sub, provider |-> p, iss |-> JwtIssuer, aud |-> JwtAudience,
   iat |-> t, exp |-> t + ExpiresIn, key |-> ServerKey]

\* getExpirationInfo().expiresIn
GetExpirationInfo == ExpiresIn

\* the message of the error getPrivateKey, signServerJWT and
\* verifyServerJWT throw for a key that does not import
PrivateKeyError == <<"Invalid private key format", ": ", "import failed">>
SignError == <<"Failed to sign JWT: ">> \o PrivateKeyError
VerifyError == <<"Invalid JWT: ">> \o PrivateKeyError

ExRespond(status, code, token, expiresIn, p) ==
  exResponses' = Append(exResponses,
    [status |-> status, code |-> code, token |-> token,
     expiresIn |-> expiresIn, provider |-> p])

ExError(status, code) == ExRespond(status, code, <<>>, 0, Absent)

\* the catch block of the route for an Error that is no ZodError
ExchangeCatch(msg) ==
  IF Includes(msg, "verification failed") \/ Includes(msg, "not configured")
  THEN ExError(401, "AUTH_FAILED")
  ELSE ExError(500, "INTERNAL_ERROR")

\* a variant that calls the verifier without asking isConfigured first
ExchangeStartNoConfiguredCheck ==
  /\ exPc = "start"
  /\ IF ~ExchangeSchemaOk(exBody)
     THEN /\ exStages' = exStages \o <<"validate", "respond">>
          /\ ExError(400, "VALIDATION_ERROR")
          /\ exPc' = "done"
     ELSE /\ exStages' = exStages \o <<"validate", "configured", "verify">>
          /\ exPc' = "verifying"
          /\ UNCHANGED exResponses
  /\ UNCHANGED <<exBody, audiences, privateKeyOk, jwksReachable, exUserInfo,
                 jwksCache, jwksCalls>>

\* router.post('/exchange') up to its await of verifyIdToken: the schema,
\* then the provider's isConfigured check, then the call of the verifier
ExchangeStart ==
  /\ exPc = "start"
  /\ IF ~ExchangeSchemaOk(exBody)
     THEN /\ exStages' = exStages \o <<"validate", "respond">>
          /\ ExError(400, "VALIDATION_ERROR")
          /\ exPc' = "done"
     ELSE IF ~VerifierConfigured(exBody.provider, audiences)
     THEN /\ exStages' = exStages \o <<"validate", "configured", "respond">>
          /\ ExError(400, IF exBody.provider = "google"
                          THEN "GOOGLE_NOT_CONFIGURED"
                          ELSE "APPLE_NOT_CONFIGURED")
          /\ exPc' = "done"
     ELSE /\ exStages' = exStages \o <<"validate", "configured", "verify">>
          /\ exPc' = "verifying"
          /\ UNCHANGED exResponses
  /\ UNCHANGED <<exBody, audiences, privateKeyOk, jwksReachable, exUserInfo,
                 jwksCache, jwksCalls>>

\* the inputs of a verifier call: whether the cached key set holds the keys
\* already and whether the key endpoint answers
VerifierInputs(cache, url, ms) ==
  {in \in [loaded : BOOLEAN, reachable : BOOLEAN] :
     in.loaded => (CacheHit(cache, url, ms) /\ in.reachable)}

\* a variant that verifies a second time after a failed verification
ExchangeVerifiedWithRetry ==
  /\ exPc = "verifying"
  /\ \E in \in VerifierInputs(jwksCache, JwksUrlOf(exBody.provider),
                              now * 1000) :
       LET run == VerifierRun(exBody.provider, exBody.idToken, audiences,
                              jwksCache, in.loaded, in.reachable, now)
       IN /\ jwksReachable' = in.reachable
          /\ jwksCache' = run.cache
          /\ jwksCalls' = jwksCalls \o run.calls
          /\ IF run.error = NoError
             THEN /\ exUserInfo' = ExtractUserInfo(exBody.idToken)
                  /\ exStages' = Append(exStages, "mint")
                  /\ exPc' = "signing"
                  /\ UNCHANGED exResponses
             ELSE IF Len(exStages) = 3
             THEN /\ exStages' = Append(exStages, "verify")
                  /\ UNCHANGED <<exPc, exResponses, exUserInfo>>
             ELSE /\ exStages' = Append(exStages, "respond")
                  /\ ExchangeCatch(run.error)
                  /\ exPc' = "done"
                  /\ UNCHANGED exUserInfo
  /\ UNCHANGED <<exBody, audiences, privateKeyOk>>

\* verifyIdToken settles: the catch block answers a failure; on success the
\* user info is extracted and signServerJWT is called
ExchangeVerified ==
  /\ exPc = "verifying"
  /\ \E in \in VerifierInputs(jwksCache, JwksUrlOf(exBody.provider),
                              now * 1000) :
       LET run == VerifierRun(exBody.provider, exBody.idToken, audiences,
                              jwksCache, in.loaded, in.reachable, now)
       IN /\ jwksReachable' = in.reachable
          /\ jwksCache' = run.cache
          /\ jwksCalls' = jwksCalls \o run.calls
          /\ IF run.error = NoError
             THEN /\ exUserInfo' = ExtractUserInfo(exBody.idToken)
                  /\ exStages' = Append(exStages, "mint")
                  /\ exPc' = "signing"
                  /\ UNCHANGED exResponses
             ELSE /\ exStages' = Append(exStages, "respond")
                  /\ ExchangeCatch(run.error)
                  /\ exPc' = "done"
                  /\ UNCHANGED exUserInfo
  /\ UNCHANGED <<exBody, audiences, privateKeyOk>>

\* signServerJWT settles: the token is returned with its lifetime, or the
\* catch block answers the signing failure
ExchangeSigned ==
  /\ exPc = "signing"
  /\ exStages' = Append(exStages, "respond")
  /\ exPc' = "done"
  /\ IF privateKeyOk
     THEN ExRespond(200, "OK",
                    <<SignServerJWT(exUserInfo.userId, exBody.provider, now)>>,
                    GetExpirationInfo, exBody.provider)
     ELSE ExchangeCatch(SignError)
  /\ UNCHANGED <<exBody, audiences, privateKeyOk, jwksReachable, exUserInfo,
                 jwksCache, jwksCalls>>

(***************************************************************************)
(* SpecExchange: one request through POST /v1/auth/exchange.               *)
(***************************************************************************)
\* allowedAudiences of a verifier: the ids of its two environment
\* variables that are set
AllowedAudiences(id1, id2) == {id \in {id1, id2} : id # Absent}

\* the audiences of the two verifiers for the environments of the model:
\* each Google client id set or not, Apple's bundle id set or not
AudienceConfigs ==
  {[google |-> AllowedAudiences(ios, android),
    apple |-> AllowedAudiences(bundle, Absent)] :
     ios \in {Absent, "client-ios"},
     android \in {Absent, "client-android"},
     bundle \in {Absent, "client-ios"}}

\* the cache of a fresh process, and of one that verified tokens of both
\* providers before
CacheStates ==
  {EmptyCache, [u \in JwksUrls |-> [cached |-> TRUE, lastFetched |-> 0]]}

InitExchange ==
  /\ provider = "openai"
  /\ StreamIdle
  /\ MobileIdle
  /\ GateIdle
  /\ TokenIdle
  /\ JwksIdle
  /\ exBody \in [provider : {"google", "apple", "facebook", Absent},
                 idToken : IdTokens]
  /\ audiences \in AudienceConfigs
  /\ privateKeyOk \in BOOLEAN
  /\ jwksReachable = TRUE
  /\ exPc = "start"
  /\ exStages = <<>>
  /\ exUserInfo = NoUserInfo
  /\ exResponses = <<>>
  /\ jwksCache \in CacheStates
  /\ jwksCalls = <<>>

NextExchange ==
  \/ ExchangeStart /\ UNCHANGED <<streamVars, gateVars, tokVars, jwksVars, mobVars>>
  \/ ExchangeVerified /\ UNCHANGED <<streamVars, gateVars, tokVars, jwksVars, mobVars>>
  \/ ExchangeSigned /\ UNCHANGED <<streamVars, gateVars, tokVars, jwksVars, mobVars>>

SpecExchange == InitExchange /\ [][NextExchange]_vars

(***************************************************************************)
(* SpecToken: the access token service from the start of the process on:   *)
(* the constructor runs when the module is loaded, then requests call      *)
(* signServerJWT and verifyServerJWT while time passes.                    *)
(***************************************************************************)
\* how many sign and verify calls a behaviour holds
MaxCalls == 3

\* the instants of the clock: around the start and around the expiry of a
\* token issued there
Instants ==
  (0..MaxTime) \cup {ExpiresIn - 1 + d : d \in 0..(MaxTime + 1)}

Subjects == {"u1", "u2"}

\* getPrivateKey resolves: the PEM body decodes and imports as PKCS#8
GetPrivateKeyOk(key) == key = "valid"

\* the message of the error verifyServerJWT throws for a token, NoError if
\* it resolves
VerifyServerJWTError(key, token, t) ==
  IF ~GetPrivateKeyOk(key) THEN VerifyError
  ELSE IF VerifyServerJWT(token, t) THEN NoError
  ELSE IF token = GarbageToken THEN <<"Invalid JWT: ", "Invalid Compact JWS">>
  ELSE IF token.key # ServerKey
  THEN <<"Invalid JWT: ", "signature ", "verification failed">>
  ELSE IF token.iss # JwtIssuer
  THEN <<"Invalid JWT: ", "unexpected iss claim value">>
  ELSE IF token.aud # JwtAudience
  THEN <<"Invalid JWT: ", "unexpected aud claim value">>
  ELSE <<"Invalid JWT: ", "exp claim timestamp check failed">>

\* a settled call of the service
Verdict(op, token, t, error, claims, expiresIn) ==
  [op |-> op, token |-> token, t |-> t, error |-> error, claims |-> claims,
   expiresIn |-> expiresIn]

\* new JWTService() at module load: an empty JWT_PRIVATE_KEY throws, which
\* ends the process; nothing else is looked at
Startup ==
  /\ process = "boot"
  /\ process' = (IF privateKey = "" THEN "crashed" ELSE "running")
  /\ UNCHANGED <<privateKey, tokIssued, tokVerdicts, jwksResponses, gateVars>>

\* a request calls signServerJWT({sub, provider}), as the exchange route
\* does to mint the token it answers with getExpirationInfo().expiresIn
Sign ==
  /\ process = "running"
  /\ tokIssued = <<>>
  /\ Len(tokVerdicts) < MaxCalls
  /\ \E sub \in Subjects, p \in {"google", "apple"} :
       IF GetPrivateKeyOk(privateKey)
       THEN /\ tokIssued' = <<SignServerJWT(sub, p, now)>>
            /\ tokVerdicts' = Append(tokVerdicts,
                 Verdict("sign", SignServerJWT(sub, p, now), now, NoError,
                         [userId |-> sub, provider |-> p],
                         GetExpirationInfo))
       ELSE /\ tokVerdicts' = Append(tokVerdicts,
                 Verdict("sign", GarbageToken, now, SignError,
                         [userId |-> sub, provider |-> p], 0))
            /\ UNCHANGED tokIssued
  /\ UNCHANGED <<privateKey, process, jwksResponses, gateVars>>

\* a request calls verifyServerJWT with the token the service issued, or
\* with a string that is no token while none was issued
Verify ==
  /\ process = "running"
  /\ Len(tokVerdicts) < MaxCalls
  /\ LET token == IF tokIssued = <<>> THEN GarbageToken ELSE tokIssued[1]
         error == VerifyServerJWTError(privateKey, token, now)
     IN tokVerdicts' = Append(tokVerdicts,
          Verdict("verify", token, now, error,
                  IF error = NoError THEN ExtractUserContext(token)
                  ELSE NoUser, 0))
  /\ UNCHANGED <<privateKey, process, tokIssued, jwksResponses, gateVars>>

(***************************************************************************)
(* The published key.  A JWK is a function from member names to values; a  *)
(* CryptoKey is modelled by the JWK members it was imported from.          *)
(***************************************************************************)
\* the members of an RSA JWK that belong to the private key
RsaPrivateMembers == {"d", "p", "q", "dp", "dq", "qi"}

\* the public half of the pair of a signing key
Modulus(key) == "n of " \o key
PublicExponent == "AQAB"

\* crypto.subtle.exportKey('jwk', privateKey) of the imported PKCS#8 key
ExportedPrivateJwk ==
  [kty |-> "RSA", n |-> Modulus(ServerKey), e |-> PublicExponent,
   d |-> "d of " \o ServerKey, p |-> "p of " \o ServerKey,
   q |-> "q of " \o ServerKey, dp |-> "dp of " \o ServerKey,
   dq |-> "dq of " \o ServerKey, qi |-> "qi of " \o ServerKey,
   alg |-> "RS256", key_ops |-> "sign", ext |-> "true"]

\* a variant that imports every member of the exported key
GetPublicKeyFromPrivateAllMembers(exported) ==
  [f \in (DOMAIN exported \ {"key_ops", "ext"}) \cup {"use"} |->
     IF f = "use" THEN "sig" ELSE exported[f]]

\* getPublicKeyFromPrivate: the key imported from {kty, n, e, alg, use} of
\* the exported private key
GetPublicKeyFromPrivate(exported) ==
  [kty |-> exported["kty"], n |-> exported["n"], e |-> exported["e"],
   alg |-> "RS256", use |-> "sig"]

\* cryptoKeyToJWK: exportKey('jwk', key) gives the members of the key with
\* alg, key_ops and ext, and no use member
CryptoKeyToJWK(key) ==
  [f \in (DOMAIN key \ {"use"}) \cup {"key_ops", "ext"} |->
     CASE f = "key_ops" -> "verify"
       [] f = "ext"     -> "true"
       [] OTHER         -> key[f]]

\* generateJWK: {...jwk, use, alg, kid}
GenerateJWK ==
  LET jwk == CryptoKeyToJWK(GetPublicKeyFromPrivate(ExportedPrivateJwk))
  IN [f \in DOMAIN jwk \cup {"use", "alg", "kid"} |->
        CASE f = "use" -> "sig"
          [] f = "alg" -> "RS256"
          [] f = "kid" -> "unsent-letters-server-key"
          [] OTHER     -> jwk[f]]

\* the signature of a token verifies under the RSA public key of a JWK
VerifiesUnder(jwk, token) ==
  /\ {"kty", "n", "e"} \subseteq DOMAIN jwk
  /\ jwk["kty"] = "RSA"
  /\ jwk["n"] = Modulus(token.key)
  /\ jwk["e"] = PublicExponent

\* router.get('/.well-known/jwks.json'): {keys: [jwk]}, or 500 JWKS_ERROR
\* when generateJWK throws
WellKnownJwks ==
  /\ process = "running"
  /\ jwksResponses = <<>>
  /\ jwksResponses' =
       <<IF GetPrivateKeyOk(privateKey)
         THEN [status |-> 200, code |-> "OK", keys |-> <<GenerateJWK>>]
         ELSE [status |-> 500, code |-> "JWKS_ERROR", keys |-> <<>>]>>
  /\ UNCHANGED <<privateKey, process, tokIssued, tokVerdicts, gateVars>>

\* time passes
Elapse ==
  /\ process = "running"
  /\ \E t \in Instants : t > now /\ now' = t
  /\ UNCHANGED <<gate, route, authHeader, reqBody, configured, gatePc,
                 nextCalls, reqUser, responses, handlerPc, providerCalls>>
  /\ UNCHANGED tokVars

InitToken ==
  /\ provider = "openai"
  /\ StreamIdle
  /\ MobileIdle
  /\ GateIdle
  /\ ExchangeIdle
  /\ JwksIdle
  /\ privateKey \in {"", "malformed", "valid"}
  /\ process = "boot"
  /\ tokIssued = <<>>
  /\ tokVerdicts = <<>>
  /\ jwksResponses = <<>>

NextToken ==
  \/ Startup /\ UNCHANGED <<streamVars, exVars, jwksVars, mobVars>>
  \/ Sign /\ UNCHANGED <<streamVars, exVars, jwksVars, mobVars>>
  \/ Verify /\ UNCHANGED <<streamVars, exVars, jwksVars, mobVars>>
  \/ WellKnownJwks /\ UNCHANGED <<streamVars, exVars, jwksVars, mobVars>>
  \/ Elapse /\ UNCHANGED <<streamVars, exVars, jwksVars, mobVars>>

SpecToken == InitToken /\ [][NextToken]_vars

(***************************************************************************)
(* SpecJwks: the key set cache (JWKSService) over the life of the process: *)
(* verifications ask it for the key set of an issuer while time passes.    *)
(***************************************************************************)
\* the instants of the clock, in seconds: around the creation of an entry
\* and around the end of its time to live
JwksInstants ==
  (0..MaxTime) \cup {(CACHE_TTL \div 1000) - 1 + d : d \in 0..(MaxTime + 1)}

\* a call of the cache, as the log keeps it
JwksCall(op, url, t, instance, created, fetched, ok) ==
  [op |-> op, url |-> url, t |-> t, instance |-> instance,
   created |-> created, fetched |-> fetched, ok |-> ok]

\* createRemoteJWKSet(new URL(url), ...): a key set client that has not
\* fetched the keys yet
NewClient(url) == [url |-> url, loaded |-> FALSE, loadedAt |-> 0]

\* the client after it fetched the keys at instant t
Loaded(client, t) == [client EXCEPT !.loaded = TRUE, !.loadedAt = t]

\* a verifier calls getJWKS(url) and jwtVerify looks the key up in the key
\* set returned: a client that holds the keys answers from them, a client
\* without keys fetches them from the issuer's endpoint and keeps them when
\* the endpoint answers
JwksVerification ==
  /\ Len(jwksLog) < MaxCalls
  /\ \E url \in JwksUrls, reachable \in BOOLEAN :
       LET hit == CacheHit(jwksCache, url, now * 1000)
           inst == IF hit THEN jwksInstance[url] ELSE Len(jwksClients) + 1
           clients == IF hit THEN jwksClients
                      ELSE Append(jwksClients, NewClient(url))
           loaded == clients[inst].loaded
           ok == loaded \/ reachable
       IN /\ loaded => reachable
          /\ jwksCache' = GetJWKS(jwksCache, url, now * 1000)
          /\ jwksInstance' = [jwksInstance EXCEPT ![url] = inst]
          /\ jwksClients' =
               [clients EXCEPT ![inst] =
                  IF ~loaded /\ ok THEN Loaded(clients[inst], now) ELSE @]
          /\ jwksLog' = Append(jwksLog,
               JwksCall("verify", url, now, inst, ~hit, ~loaded, ok))
  /\ UNCHANGED <<exBody, audiences, privateKeyOk, jwksReachable, exPc,
                 exStages, exUserInfo, exResponses, jwksCalls>>
  /\ UNCHANGED <<jwksHeld, gateVars>>

\* a variant of clearCache that removes every entry whatever its argument
ClearCacheEveryEntry ==
  /\ Len(jwksLog) < MaxCalls
  /\ \E target \in JwksUrls \cup {"all"} :
       /\ jwksCache' = [u \in JwksUrls |->
            NoEntry]
       /\ jwksInstance' = [u \in JwksUrls |->
            0]
       /\ jwksLog' = Append(jwksLog,
            JwksCall("clear", target, now, 0, FALSE, FALSE, TRUE))
  /\ UNCHANGED <<exBody, audiences, privateKeyOk, jwksReachable, exPc,
                 exStages, exUserInfo, exResponses, jwksCalls>>
  /\ UNCHANGED <<jwksClients, jwksHeld, gateVars>>

\* JWKSService.clearCache(url) and clearCache()
ClearCache ==
  /\ Len(jwksLog) < MaxCalls
  /\ \E target \in JwksUrls \cup {"all"} :
       /\ jwksCache' = [u \in JwksUrls |->
            IF target \in {u, "all"} THEN NoEntry ELSE jwksCache[u]]
       /\ jwksInstance' = [u \in JwksUrls |->
            IF target \in {u, "all"} THEN 0 ELSE jwksInstance[u]]
       /\ jwksLog' = Append(jwksLog,
            JwksCall("clear", target, now, 0, FALSE, FALSE, TRUE))
  /\ UNCHANGED <<exBody, audiences, privateKeyOk, jwksReachable, exPc,
                 exStages, exUserInfo, exResponses, jwksCalls>>
  /\ UNCHANGED <<jwksClients, jwksHeld, gateVars>>

\* time passes
JwksElapse ==
  /\ \E t \in JwksInstants : t > now /\ now' = t
  /\ UNCHANGED <<gate, route, authHeader, reqBody, configured, gatePc,
                 nextCalls, reqUser, responses, handlerPc, providerCalls>>
  /\ UNCHANGED <<exVars, jwksVars>>

InitJwks ==
  /\ provider = "openai"
  /\ StreamIdle
  /\ MobileIdle
  /\ GateIdle
  /\ ExchangeIdle
  /\ TokenIdle
  /\ JwksIdle

NextJwks ==
  \/ JwksVerification /\ UNCHANGED <<streamVars, tokVars, mobVars>>
  \/ ClearCache /\ UNCHANGED <<streamVars, tokVars, mobVars>>
  \/ JwksElapse /\ UNCHANGED <<streamVars, tokVars, mobVars>>

SpecJwks == InitJwks /\ [][NextJwks]_vars

(***************************************************************************)
(* Verifications in flight together.  getJWKS is synchronous, so a call    *)
(* is one step; the await of jwtVerify lets other verifications and the    *)
(* clock run between the call and the key lookup.                          *)
(***************************************************************************)
\* the keys a client holds are younger than cacheMaxAge (CACHE_TTL)
Fresh(client, t) ==
  client.loaded /\ (t - client.loadedAt) * 1000 < CACHE_TTL

\* const jwks = jwksService.getJWKS(url): the call returns the key set of
\* the entry or creates one and binds the entry to it, in the same step
ObtainKeySet(v) ==
  /\ jwksHeld[v].pc = "idle"
  /\ \E url \in JwksUrls :
       LET hit == CacheHit(jwksCache, url, now * 1000)
           inst == IF hit THEN jwksInstance[url] ELSE Len(jwksClients) + 1
       IN /\ jwksCache' = GetJWKS(jwksCache, url, now * 1000)
          /\ jwksInstance' = [jwksInstance EXCEPT ![url] = inst]
          /\ jwksClients' = IF hit THEN jwksClients
                            ELSE Append(jwksClients, NewClient(url))
          /\ jwksHeld' = [jwksHeld EXCEPT ![v] =
               [pc |-> "holding", url |-> url, instance |-> inst,
                used |-> 0, ok |-> FALSE]]
  /\ UNCHANGED <<exBody, audiences, privateKeyOk, jwksReachable, exPc,
                 exStages, exUserInfo, exResponses, jwksCalls>>
  /\ UNCHANGED <<jwksLog, gateVars>>

\* the key lookup of jwtVerify with the key set `used`: fresh keys answer,
\* otherwise the client fetches them from the issuer's endpoint
LookupWith(v, used) ==
  /\ jwksHeld[v].pc = "holding"
  /\ \E reachable \in BOOLEAN :
       LET fresh == Fresh(jwksClients[used], now)
           ok == fresh \/ reachable
       IN /\ jwksClients' =
               [jwksClients EXCEPT ![used] =
                  IF ~fresh /\ reachable THEN Loaded(@, now) ELSE @]
          /\ jwksHeld' = [jwksHeld EXCEPT ![v] =
               [@ EXCEPT !.pc = "done", !.used = used, !.ok = ok]]
  /\ UNCHANGED <<jwksInstance, jwksLog>>
  /\ UNCHANGED <<exVars, gateVars>>

\* a variant that looks the key up in the key set the cache entry holds
\* when the lookup runs
CompleteVerificationFromCache(v) ==
  LookupWith(v, jwksInstance[jwksHeld[v].url])

\* await jwtVerify(idToken, jwks, ...) settles: the lookup uses the key
\* set the verification obtained
CompleteVerification(v) ==
  LookupWith(v, jwksHeld[v].instance)

NextJwksConcurrent ==
  \/ \E v \in Verifications : ObtainKeySet(v) /\ UNCHANGED <<streamVars, tokVars, mobVars>>
  \/ \E v \in Verifications :
       CompleteVerification(v) /\ UNCHANGED <<streamVars, tokVars, mobVars>>
  \/ JwksElapse /\ UNCHANGED <<streamVars, tokVars, mobVars>>

SpecJwksConcurrent == InitJwks /\ [][NextJwksConcurrent]_vars

(***************************************************************************)
(* SpecReply: one authenticated request through a reply route, over the    *)
(* message roles, the content lengths at the ceiling, the provider named   *)
(* and the providers configured.                                           *)
(***************************************************************************)
\* an access token the gate accepts at the start of the clock
ValidToken ==
  [sub |-> "u1", provider |-> "google", iss |-> JwtIssuer,
   aud |-> JwtAudience, iat |-> 0, exp |-> MaxTime, key |-> ServerKey]

\* request bodies: messages of every role with contents of 1,
\* MaxLetterChars - 1 and MaxLetterChars characters, with or without a
\* provider name
ReplyBodies ==
  {[messages |-> ms, provider |-> p] :
     ms \in UNION {[1..n -> [role : Roles,
                             len : {1, MaxLetterChars - 1, MaxLetterChars}]] :
                     n \in 1..MaxMessages},
     p \in AIProviders \cup {"none"}}

InitReply ==
  /\ provider = "openai"
  /\ StreamIdle
  /\ MobileIdle
  /\ ExchangeIdle
  /\ TokenIdle
  /\ JwksIdle
  /\ now = 0
  /\ authHeader = HeaderOf(<<"Bearer ", ValidToken>>)
  /\ gate = "required"
  /\ route \in {"reply", "stream"}
  /\ reqBody \in ReplyBodies
  /\ configured \in SUBSET AIProviders
  /\ gatePc = "start"
  /\ nextCalls = 0
  /\ reqUser = NoUser
  /\ responses = <<>>
  /\ handlerPc = "idle"
  /\ providerCalls = <<>>

NextReply ==
  \/ AuthRequired /\ UNCHANGED <<streamVars, exVars, tokVars, jwksVars, mobVars>>
  \/ ReplyHandler /\ UNCHANGED <<exVars, tokVars, jwksVars, mobVars>>
  \/ StreamHandler /\ UNCHANGED <<exVars, tokVars, jwksVars, mobVars>>
  \/ ReplySettles /\ UNCHANGED <<exVars, tokVars, jwksVars, mobVars>>
  \/ StreamSettles /\ UNCHANGED <<exVars, tokVars, jwksVars, mobVars>>

SpecReply == InitReply /\ [][NextReply]_vars

(***************************************************************************)
(* The mobile client: ApiClient (services/api_client.dart) and             *)
(* AuthNotifier (pages/login_page.dart).  An await ends a step: what runs  *)
(* between two awaits is one step.                                         *)
(***************************************************************************)
NoOp == [kind |-> "none", provider |-> Absent]

\* ApiClient.isAuthenticated: _token != null
ApiClientIsAuthenticated == mToken # "none"

\* ApiClient(): _initializeDio() and _loadConfiguration() up to its first
\* await, the read of the base URL; the constructor does not wait for it
CreateApiClient ==
  /\ mLoadPc = "notcreated"
  /\ mLoadPc' = "readBaseUrl"
  /\ UNCHANGED <<mToken, mStorage, mServerUp, mCheckPc, mOp, mState>>

\* _loadConfiguration: the base URL was read; a saved one is taken, else
\* the detected one is written to the storage
LoadBaseUrl ==
  /\ mLoadPc = "readBaseUrl"
  /\ \E saved \in BOOLEAN :
       mLoadPc' = (IF saved THEN "readToken" ELSE "writeBaseUrl")
  /\ UNCHANGED <<mToken, mStorage, mServerUp, mCheckPc, mOp, mState>>

\* _loadConfiguration: the base URL was written
WriteBaseUrl ==
  /\ mLoadPc = "writeBaseUrl"
  /\ mLoadPc' = "readToken"
  /\ UNCHANGED <<mToken, mStorage, mServerUp, mCheckPc, mOp, mState>>

\* _loadConfiguration: _token = await _secureStorage.read(key: _tokenKey)
LoadToken ==
  /\ mLoadPc = "readToken"
  /\ mToken' = mStorage
  /\ mLoadPc' = "done"
  /\ UNCHANGED <<mStorage, mServerUp, mCheckPc, mOp, mState>>

\* AuthNotifier(apiClient): _checkAuthStatus() up to its first await; the
\* test of _apiClient.isAuthenticated runs in the constructor
CreateAuthNotifier ==
  /\ mLoadPc # "notcreated"
  /\ mCheckPc = "notcreated"
  /\ mCheckPc' = (IF ApiClientIsAuthenticated THEN "health" ELSE "done")
  /\ UNCHANGED <<mToken, mStorage, mServerUp, mLoadPc, mOp, mState>>

\* _checkAuthStatus: getHealth() settled; on success the state becomes
\* authenticated, on an error the catch block starts clearToken()
HealthAnswered ==
  /\ mCheckPc = "health"
  /\ IF mServerUp
     THEN /\ mState' = [mState EXCEPT !.isAuthenticated = TRUE]
          /\ mCheckPc' = "done"
          /\ UNCHANGED mToken
     ELSE /\ mToken' = "none"
          /\ mCheckPc' = "clearing"
          /\ UNCHANGED mState
  /\ UNCHANGED <<mStorage, mServerUp, mLoadPc, mOp>>

\* _checkAuthStatus: the delete of clearToken() is done, the state becomes
\* unauthenticated
CheckCleared ==
  /\ mCheckPc = "clearing"
  /\ mStorage' = "none"
  /\ mState' = [mState EXCEPT !.isAuthenticated = FALSE]
  /\ mCheckPc' = "done"
  /\ UNCHANGED <<mToken, mServerUp, mLoadPc, mOp>>

\* signInWithGoogle / signInWithApple up to the answer of the exchange:
\* isLoading is set and the identity token is sent
SignInStart ==
  /\ mCheckPc # "notcreated"
  /\ mOp = NoOp
  /\ \E p \in {"google", "apple"} : mOp' = [kind |-> "exchange", provider |-> p]
  /\ mState' = [mState EXCEPT !.isLoading = TRUE]
  /\ UNCHANGED <<mToken, mStorage, mServerUp, mLoadPc, mCheckPc>>

\* the sign-in settled. 200: the exchange was answered, setToken assigns
\* _token and starts the write; 401: the onError interceptor clears the
\* token and the catch block of the sign-in ends the loading; 0: the user
\* cancelled or no answer came, isLoading ends
ExchangeAnswered ==
  /\ mOp.kind = "exchange"
  /\ \E status \in {0} \cup (IF mServerUp THEN {200, 401} ELSE {}) :
       CASE status = 200 ->
              /\ mToken' = "jwt"
              /\ mOp' = [mOp EXCEPT !.kind = "storing"]
              /\ UNCHANGED <<mStorage, mState>>
         [] status = 401 ->
              /\ mToken' = "none"
              /\ mStorage' = "none"
              /\ mState' = [mState EXCEPT !.isLoading = FALSE]
              /\ mOp' = NoOp
         [] OTHER ->
              /\ mState' = [mState EXCEPT !.isLoading = FALSE]
              /\ mOp' = NoOp
              /\ UNCHANGED <<mToken, mStorage>>
  /\ UNCHANGED <<mServerUp, mLoadPc, mCheckPc>>

\* setToken: the write is done; the sign-in sets the state authenticated
TokenStored ==
  /\ mOp.kind = "storing"
  /\ mStorage' = "jwt"
  /\ mState' = [isAuthenticated |-> TRUE, isLoading |-> FALSE,
                provider |-> mOp.provider]
  /\ mOp' = NoOp
  /\ UNCHANGED <<mToken, mServerUp, mLoadPc, mCheckPc>>

\* signOut up to the await inside clearToken(): isLoading is set and _token
\* is null
SignOutStart ==
  /\ mCheckPc # "notcreated"
  /\ mOp = NoOp
  /\ mOp' = [kind |-> "signout", provider |-> mState.provider]
  /\ mState' = [mState EXCEPT !.isLoading = TRUE]
  /\ mToken' = "none"
  /\ UNCHANGED <<mStorage, mServerUp, mLoadPc, mCheckPc>>

\* signOut: the token is deleted from the storage; a Google user is then
\* signed out of Google, for any other state = const AuthState() follows
SignOutCleared ==
  /\ mOp.kind = "signout"
  /\ mStorage' = "none"
  /\ IF mState.provider = "google"
     THEN /\ mOp' = [mOp EXCEPT !.kind = "googleSignOut"]
          /\ UNCHANGED mState
     ELSE /\ mOp' = NoOp
          /\ mState' = SignedOut
  /\ UNCHANGED <<mToken, mServerUp, mLoadPc, mCheckPc>>

\* signOut: _googleSignIn.signOut() settled, state = const AuthState() in
\* the try block or in the catch block
SignOutDone ==
  /\ mOp.kind = "googleSignOut"
  /\ mState' = SignedOut
  /\ mOp' = NoOp
  /\ UNCHANGED <<mToken, mStorage, mServerUp, mLoadPc, mCheckPc>>

\* a page calls an endpoint through _dio (getAiReply, getHealth, ...)
ApiCallStart ==
  /\ mLoadPc # "notcreated"
  /\ mOp = NoOp
  /\ mOp' = [kind |-> "apicall", provider |-> Absent]
  /\ UNCHANGED <<mToken, mStorage, mServerUp, mLoadPc, mCheckPc, mState>>

\* the call was answered; on a 401 the onError interceptor runs
\* clearToken(); the AuthState is not touched
ApiCallAnswered ==
  /\ mOp.kind = "apicall"
  /\ \E status \in (IF mServerUp THEN {200, 401} ELSE {0}) :
       IF status = 401
       THEN mToken' = "none" /\ mStorage' = "none"
       ELSE UNCHANGED <<mToken, mStorage>>
  /\ mOp' = NoOp
  /\ UNCHANGED <<mServerUp, mLoadPc, mCheckPc, mState>>

InitMobile ==
  /\ provider = "openai"
  /\ StreamIdle
  /\ GateIdle
  /\ ExchangeIdle
  /\ TokenIdle
  /\ JwksIdle
  /\ mToken = "none"
  /\ mStorage \in {"none", "jwt"}
  /\ mServerUp \in BOOLEAN
  /\ mLoadPc = "notcreated"
  /\ mCheckPc = "notcreated"
  /\ mOp = NoOp
  /\ mState = SignedOut

\* the steps of the start of the app
AppStart ==
  \/ CreateApiClient \/ LoadBaseUrl \/ WriteBaseUrl \/ LoadToken
  \/ CreateAuthNotifier \/ HealthAnswered \/ CheckCleared

NextMobile ==
  \/ CreateApiClient /\ UNCHANGED <<streamVars, gateVars, exVars, tokVars, jwksVars>>
  \/ LoadBaseUrl /\ UNCHANGED <<streamVars, gateVars, exVars, tokVars, jwksVars>>
  \/ WriteBaseUrl /\ UNCHANGED <<streamVars, gateVars, exVars, tokVars, jwksVars>>
  \/ LoadToken /\ UNCHANGED <<streamVars, gateVars, exVars, tokVars, jwksVars>>
  \/ CreateAuthNotifier /\ UNCHANGED <<streamVars, gateVars, exVars, tokVars, jwksVars>>
  \/ HealthAnswered /\ UNCHANGED <<streamVars, gateVars, exVars, tokVars, jwksVars>>
  \/ CheckCleared /\ UNCHANGED <<streamVars, gateVars, exVars, tokVars, jwksVars>>
  \/ SignInStart /\ UNCHANGED <<streamVars, gateVars, exVars, tokVars, jwksVars>>
  \/ ExchangeAnswered /\ UNCHANGED <<streamVars, gateVars, exVars, tokVars, jwksVars>>
  \/ TokenStored /\ UNCHANGED <<streamVars, gateVars, exVars, tokVars, jwksVars>>
  \/ SignOutStart /\ UNCHANGED <<streamVars, gateVars, exVars, tokVars, jwksVars>>
  \/ SignOutCleared /\ UNCHANGED <<streamVars, gateVars, exVars, tokVars, jwksVars>>
  \/ SignOutDone /\ UNCHANGED <<streamVars, gateVars, exVars, tokVars, jwksVars>>
  \/ ApiCallStart /\ UNCHANGED <<streamVars, gateVars, exVars, tokVars, jwksVars>>
  \/ ApiCallAnswered /\ UNCHANGED <<streamVars, gateVars, exVars, tokVars, jwksVars>>

SpecMobile == InitMobile /\ [][NextMobile]_vars

\* the start of the app runs on: every await of the start settles
SpecMobileLive == SpecMobile /\ WF_mobVars(AppStart)

(***************************************************************************)
(* Helpers of the properties of the relay.                                 *)
(***************************************************************************)
EventCount(type) ==
  Cardinality({i \in 1..Len(res.writes) : res.writes[i].type = type})

IsChunk(e) == e.type = "chunk"

RECURSIVE Contents(_)
Contents(evs) ==
  IF evs = <<>> THEN <<>> ELSE <<Head(evs).content>> \o Contents(Tail(evs))

\* the contents of the 'chunk' events of a sequence of writes, in order
ChunkContents(writes) == Contents(SelectSeq(writes, IsChunk))

\* the type and content of every write, in order
RECURSIVE Events(_)
Events(writes) ==
  IF writes = <<>> THEN <<>>
  ELSE <<<<Head(writes).type, Head(writes).content>>>> \o Events(Tail(writes))

\* the complete (newline-terminated) lines of a byte sequence
CompleteLines(bytes) ==
  LET pieces == SplitLines(bytes) IN SubSeq(pieces, 1, Len(pieces) - 1)

\* what one line, taken alone, makes the provider's handler write
LineAlone(p, line) == ProcessLine(p, line, NoRes)
LineFragments(p, line) == ChunkContents(LineAlone(p, line).res.writes)
IsTerminator(p, line) == LineAlone(p, line).ret

RECURSIVE AllFragments(_, _)
\* the content fragments of a sequence of lines, in upstream order
AllFragments(p, lines) ==
  IF lines = <<>> THEN <<>>
  ELSE LineFragments(p, Head(lines)) \o AllFragments(p, Tail(lines))

RECURSIVE IsSubseq(_, _)
\* s can be obtained from t by deleting elements
IsSubseq(s, t) ==
  IF s = <<>> THEN TRUE
  ELSE IF t = <<>> THEN FALSE
  ELSE IF Head(s) = Head(t) THEN IsSubseq(Tail(s), Tail(t))
  ELSE IsSubseq(s, Tail(t))

\* complete lines that fail to parse: invalid JSON, or JSON lacking the
\* expected fields
MalformedLines(p) ==
  IF p = "ollama" THEN {<<"{c:a">>, <<"{", JsonClose>>}
  ELSE {<<DataPrefix, "{c:a">>, <<DataPrefix, "{", JsonClose>>}

\* the writes of a single unchunked read of the whole body followed by 'end'
UnchunkedWrites ==
  LET start == ResWrite(NoRes, "connected", "")
      read  == IF body = <<>> THEN start
               ELSE OnDataHandler(provider, <<>>, body, start).res
  IN  OnEndHandler(read).writes

(***************************************************************************)
(* Claims about the streaming relay, checked under SpecStream.             *)
(***************************************************************************)
\* C1: on every stream whose upstream finishes without transport error,
\* exactly one 'done' event is written over the whole life of the stream
\* (never a second one while the stream runs, exactly one once it ended).
C1_ExactlyOneDone ==
  /\ bodyState \in {"flowing", "ended"} => EventCount("done") <= 1
  /\ bodyState = "ended" => EventCount("done") = 1

\* C2: whatever the chunking of the upstream bytes, a finished stream wrote
\* the same 'chunk' events, in the same order, as a single unchunked read of
\* the same bytes.
C2_ChunkingIndependent ==
  bodyState = "ended" =>
    ChunkContents(res.writes) = ChunkContents(UnchunkedWrites)

\* C3: after the client connection closed, the relay writes no further
\* event to the response and consumes no further upstream data.
C3_NoWorkAfterClose ==
  [][clientClosed => (res' = res /\ pos' = pos)]_vars

\* C4: after an upstream transport error the response carries exactly one
\* 'error' event, no 'done' event, and is ended.
C4_ErrorIsOnlyTerminal ==
  bodyState = "errored" =>
    /\ EventCount("error") = 1
    /\ EventCount("done") = 0
    /\ res.ended

\* C5: the contents of the 'chunk' events written so far appear in the
\* order of their fragments in the upstream lines delivered so far (they
\* are a subsequence of the fragments of those lines).
C5_ChunksInUpstreamOrder ==
  bodyState \in {"flowing", "ended", "errored"} =>
    IsSubseq(ChunkContents(res.writes),
             AllFragments(provider, CompleteLines(SubSeq(body, 1, pos))))

\* C5 witness: both fragments of a two-fragment body were forwarded.
C5_Witness ==
  /\ bodyState = "ended"
  /\ ChunkContents(res.writes) = <<"a", "b">>

\* no line before a content-bearing line of the body is a terminator
NoEarlyTerminator ==
  LET ls == CompleteLines(body) IN
    \A i, j \in 1..Len(ls) :
      (i < j /\ LineFragments(provider, ls[j]) # <<>>)
        => ~IsTerminator(provider, ls[i])

\* C6: a malformed line changes nothing (no write, no end, the loop goes
\* on), and a stream that ended, with malformed lines anywhere among its
\* content lines, forwarded every content fragment, wrote no 'error' and
\* wrote 'done' last.
C6_MalformedLineSkipped ==
  /\ \A line \in MalformedLines(provider) :
       ProcessLine(provider, line, res) = Skip(res)
  /\ (bodyState = "ended" /\ NoEarlyTerminator) =>
       /\ ChunkContents(res.writes)
            = AllFragments(provider, CompleteLines(body))
       /\ EventCount("error") = 0
       /\ res.writes[Len(res.writes)].type = "done"

\* C6 witness: a malformed line came before a content line whose chunk was
\* written, and the stream ended.
C6_Witness ==
  /\ bodyState = "ended"
  /\ LET ls == CompleteLines(body) IN
       /\ Len(ls) = 2
       /\ ls[1] \in MalformedLines(provider)
       /\ LineFragments(provider, ls[2]) # <<>>
       /\ ChunkContents(res.writes) = LineFragments(provider, ls[2])

(***************************************************************************)
(* Claims about the gates, checked under SpecGate.                         *)
(***************************************************************************)
\* the header carries 'Bearer ' and a token that verifies at time t
BearerVerifies(h, t) ==
  /\ h.present
  /\ Len(h.parts) = 2
  /\ h.parts[1] = "Bearer "
  /\ VerifyServerJWT(h.parts[2], t)

GateCodes ==
  {"MISSING_AUTH_HEADER", "INVALID_AUTH_FORMAT", "MISSING_TOKEN", "INVALID_TOKEN"}

\* the code the required gate answers a request with, by the header alone
ExpectedGateCode(h, t) ==
  IF ~h.present \/ h.parts = <<>> THEN "MISSING_AUTH_HEADER"
  ELSE IF h.parts[1] # "Bearer " THEN "INVALID_AUTH_FORMAT"
  ELSE IF Len(h.parts) = 1 THEN "MISSING_TOKEN"
  ELSE "INVALID_TOKEN"

\* C7: on both reply routes a provider method is invoked only after the
\* required gate verified the request's bearer token, and a request whose
\* token does not verify is answered 401 by the gate alone, whatever its
\* body (valid, rejected by the schema, or too long): no handler runs and no
\* provider is invoked.
C7_ProviderOnlyAfterGate ==
  /\ providerCalls # <<>> =>
       /\ gate = "required"
       /\ gatePc = "done"
       /\ BearerVerifies(authHeader, now)
       /\ reqUser # NoUser
  /\ handlerPc # "idle" => (gatePc = "done" /\ BearerVerifies(authHeader, now))
  /\ (gate = "required" /\ gatePc = "done" /\ ~BearerVerifies(authHeader, now)) =>
       /\ Len(responses) = 1
       /\ responses[1].status = 401
       /\ handlerPc = "idle"
       /\ providerCalls = <<>>

\* C7 witness: a provider's streamResponse was invoked behind the gate.
C7_Witness ==
  /\ route = "stream"
  /\ Len(providerCalls) = 1
  /\ providerCalls[1].method = "streamResponse"

\* C7 second witness state: an unauthenticated request with a too long body
\* was answered 401.
C7_WitnessTooLong401 ==
  /\ gate = "required"
  /\ gatePc = "done"
  /\ ~BearerVerifies(authHeader, now)
  /\ SchemaOk(reqBody) /\ ContentTooLong(reqBody.messages)
  /\ Len(responses) = 1 /\ responses[1].status = 401

\* C8: the required gate ends every request in exactly one of two ways: a
\* single 401 with the code that fits the header (no next, no user
\* context), or the user context of the verified token attached and next
\* called exactly once (no response by the gate); before it ran, neither.
C8_RequiredGateOutcome ==
  gate = "required" =>
    /\ gatePc = "start" => (nextCalls = 0 /\ responses = <<>> /\ reqUser = NoUser)
    /\ gatePc = "done" =>
         IF BearerVerifies(authHeader, now)
         THEN /\ nextCalls = 1
              /\ reqUser = [userId   |-> authHeader.parts[2].sub,
                            provider |-> authHeader.parts[2].provider]
              /\ \A i \in 1..Len(responses) : responses[i].code \notin GateCodes
         ELSE /\ nextCalls = 0
              /\ reqUser = NoUser
              /\ Len(responses) = 1
              /\ responses[1].status = 401
              /\ responses[1].code = ExpectedGateCode(authHeader, now)

\* C8 witness: a token that verifies was admitted with its user context.
C8_Witness ==
  /\ gate = "required"
  /\ gatePc = "done"
  /\ nextCalls = 1
  /\ reqUser = [userId |-> "u1", provider |-> "apple"]

\* C9: the optional gate calls next exactly once for every request, sends
\* no response, and attaches the token's user context exactly when a bearer
\* token is present and verifies.
C9_OptionalGateOutcome ==
  gate = "optional" =>
    /\ responses = <<>>
    /\ gatePc = "start" => (nextCalls = 0 /\ reqUser = NoUser)
    /\ gatePc = "done" =>
         /\ nextCalls = 1
         /\ IF BearerVerifies(authHeader, now)
            THEN reqUser = [userId   |-> authHeader.parts[2].sub,
                            provider |-> authHeader.parts[2].provider]
            ELSE reqUser = NoUser

\* C9 witness: a bearer token that does not verify (expired) was let
\* through without user context.
C9_Witness ==
  /\ gate = "optional"
  /\ gatePc = "done"
  /\ nextCalls = 1
  /\ reqUser = NoUser
  /\ authHeader.present
  /\ Len(authHeader.parts) = 2
  /\ authHeader.parts[1] = "Bearer "
  /\ authHeader.parts[2].key = ServerKey
  /\ authHeader.parts[2].exp <= now

(***************************************************************************)
(* Claims about the token exchange, checked under SpecExchange.            *)
(***************************************************************************)
StageOrder == <<"validate", "configured", "verify", "mint", "respond">>

\* the stages a request has run when it is answered with a given code
StagesOfCode(code) ==
  CASE code = "VALIDATION_ERROR" -> <<"validate", "respond">>
    [] code \in {"GOOGLE_NOT_CONFIGURED", "APPLE_NOT_CONFIGURED"}
         -> <<"validate", "configured", "respond">>
    [] code = "AUTH_FAILED" -> <<"validate", "configured", "verify", "respond">>
    [] OTHER -> StageOrder

\* C10: the stages of an exchange request run in the order validate,
\* configured, verify, mint, respond, each at most once; a failing stage is
\* followed by the response alone; a finished request sent exactly one
\* response and an unfinished one none.
C10_StagesInOrderOnce ==
  /\ IsSubseq(exStages, StageOrder)
  /\ exPc # "done" =>
       /\ exResponses = <<>>
       /\ \A i \in 1..Len(exStages) : exStages[i] = StageOrder[i]
  /\ exPc = "done" =>
       /\ Len(exResponses) = 1
       /\ exStages = StagesOfCode(exResponses[1].code)
       /\ exResponses[1].status = 200 <=> exResponses[1].code = "OK"

\* C10 witness: a request went through all five stages and was answered 200.
C10_Witness ==
  /\ exPc = "done"
  /\ exStages = StageOrder
  /\ exResponses[1].status = 200

\* the verifier was called for the request and rejected the identity token
VerificationFailed ==
  /\ exPc = "done"
  /\ Includes(exStages, "verify")
  /\ ~Includes(exStages, "mint")

\* C11: when the verification of the identity token fails, whatever the
\* reason (the key endpoint not answering included), the exchange answers
\* 401 AUTH_FAILED, never 500, and no access token is minted.
C11_VerificationFailureIs401 ==
  VerificationFailed =>
    /\ Len(exResponses) = 1
    /\ exResponses[1].status = 401
    /\ exResponses[1].code = "AUTH_FAILED"
    /\ exResponses[1].token = <<>>

\* C11 witness: the key endpoint did not answer for a well-formed identity
\* token, and the request was answered 401.
C11_Witness ==
  /\ VerificationFailed
  /\ exBody.idToken.kind = "jwt"
  /\ ~jwksReachable
  /\ Includes(jwksCalls, [op |-> "fetch", url |-> JwksUrlOf(exBody.provider)])
  /\ exResponses[1].status = 401

\* the request names a provider whose verifier has no audience
ProviderUnconfigured ==
  /\ ExchangeSchemaOk(exBody)
  /\ audiences[exBody.provider] = {}

\* C12: a request for a provider without configured audience is answered
\* 400 with GOOGLE_NOT_CONFIGURED or APPLE_NOT_CONFIGURED, without a call
\* of the verifier, of the key cache or of the signer; and a verifier that
\* is called without audience throws before it asks for any key set.
C12_UnconfiguredProviderIs400 ==
  /\ (exPc = "done" /\ ProviderUnconfigured) =>
       /\ Len(exResponses) = 1
       /\ exResponses[1].status = 400
       /\ exResponses[1].code = (IF exBody.provider = "google"
                                 THEN "GOOGLE_NOT_CONFIGURED"
                                 ELSE "APPLE_NOT_CONFIGURED")
       /\ exResponses[1].token = <<>>
       /\ ~Includes(exStages, "verify")
       /\ ~Includes(exStages, "mint")
       /\ jwksCalls = <<>>
       /\ jwksCache \in CacheStates
  /\ \A p \in {"google", "apple"} :
       audiences[p] = {} =>
         \A in \in [loaded : BOOLEAN, reachable : BOOLEAN] :
           LET run == VerifierRun(p, exBody.idToken, audiences, jwksCache,
                                  in.loaded, in.reachable, now)
           IN /\ Includes(run.error, "not configured")
              /\ run.calls = <<>>
              /\ run.cache = jwksCache

\* C12 witness: a well-formed request for Apple, which has no audience, was
\* answered 400 APPLE_NOT_CONFIGURED while Google is configured.
C12_Witness ==
  /\ exPc = "done"
  /\ ProviderUnconfigured
  /\ exBody.provider = "apple"
  /\ exBody.idToken.kind = "jwt"
  /\ audiences["google"] # {}
  /\ exResponses[1].code = "APPLE_NOT_CONFIGURED"

\* the body lacks provider or idToken, has an empty idToken or names a
\* provider other than google and apple
BodyMalformed ==
  \/ exBody.provider \notin {"google", "apple"}
  \/ exBody.idToken.kind \in {"missing", "empty"}

\* C13: a request with a malformed body is answered 400 VALIDATION_ERROR
\* before the configured check and before any verification, whichever
\* providers are configured.
C13_MalformedBodyIs400 ==
  (exPc = "done" /\ BodyMalformed) =>
    /\ Len(exResponses) = 1
    /\ exResponses[1].status = 400
    /\ exResponses[1].code = "VALIDATION_ERROR"
    /\ exStages = <<"validate", "respond">>
    /\ jwksCalls = <<>>

\* C13 witness: an empty idToken for Google, which is configured, was
\* answered 400 VALIDATION_ERROR.
C13_Witness ==
  /\ exPc = "done"
  /\ exBody.provider = "google"
  /\ exBody.idToken.kind = "empty"
  /\ audiences["google"] # {}
  /\ exResponses[1].code = "VALIDATION_ERROR"

\* the identity token was verified and the signing key imports
ExchangeSucceeds ==
  /\ exPc = "done"
  /\ Includes(exStages, "mint")
  /\ privateKeyOk

\* C14: a successful exchange is answered 200 with a token, its lifetime
\* and the provider; the token verifies with the access token service, its
\* sub is the subject claim of the identity token, and its provider claim
\* and the provider field of the response are the requested provider.
C14_SuccessResponse ==
  ExchangeSucceeds =>
    /\ Len(exResponses) = 1
    /\ exResponses[1].status = 200
    /\ exResponses[1].expiresIn = ExpiresIn
    /\ exResponses[1].provider = exBody.provider
    /\ Len(exResponses[1].token) = 1
    /\ LET token == exResponses[1].token[1]
       IN /\ VerifyServerJWT(token, now)
          /\ ExtractUserContext(token).userId = exBody.idToken.sub
          /\ ExtractUserContext(token).provider = exBody.provider

\* C14 witness: an Apple identity token with an email was exchanged for an
\* access token.
C14_Witness ==
  /\ ExchangeSucceeds
  /\ exBody.provider = "apple"
  /\ exBody.idToken.email # Absent
  /\ exResponses[1].status = 200
  /\ exResponses[1].token[1].provider = "apple"

(***************************************************************************)
(* Claims about the access token service, checked under SpecToken.         *)
(***************************************************************************)
\* the verify calls on a token the service issued
IssuedVerifications ==
  {i \in 1..Len(tokVerdicts) :
     tokVerdicts[i].op = "verify" /\ tokVerdicts[i].token # GarbageToken}

\* C15: a token the service signed for (sub, provider) verifies, with that
\* sub and provider, at every time up to and including its exp; it is
\* rejected as an invalid token at every time after exp; once rejected it
\* is never accepted again.
C15_RoundTripUntilExp ==
  \A i \in IssuedVerifications :
    LET v == tokVerdicts[i]
    IN /\ v.t <= v.token.exp =>
            /\ v.error = NoError
            /\ v.claims = [userId |-> v.token.sub,
                           provider |-> v.token.provider]
       /\ v.t > v.token.exp => Includes(v.error, "Invalid JWT: ")
       /\ \A j \in IssuedVerifications :
            (j < i /\ tokVerdicts[j].error # NoError) => v.error # NoError

(***************************************************************************)
(* Claims about the access token at the gate, checked under SpecGate.      *)
(***************************************************************************)
\* the request carries a bearer token that was not signed by the service's
\* key, or names another issuer or audience, or has expired
BearerTokenFlawed(h, t) ==
  /\ StartsWithBearer(h)
  /\ Len(TokenPart(h)) = 1
  /\ TokenPart(h)[1] \in SignedTokens
  /\ \/ TokenPart(h)[1].key # ServerKey
     \/ TokenPart(h)[1].iss # JwtIssuer
     \/ TokenPart(h)[1].aud # JwtAudience
     \/ TokenPart(h)[1].exp < t

\* C16: verification of an access token fails when the signature is not the
\* service's, the issuer or the audience differs from the configured one, or
\* the expiry has passed; the required gate answers such a token with 401
\* INVALID_TOKEN and attaches no user context.
C16_FlawedTokenIs401 ==
  /\ \A tok \in SignedTokens :
       (tok.key # ServerKey \/ tok.iss # JwtIssuer \/ tok.aud # JwtAudience
          \/ tok.exp < now) => ~VerifyServerJWT(tok, now)
  /\ (gate = "required" /\ gatePc = "done" /\ BearerTokenFlawed(authHeader, now))
       => /\ Len(responses) = 1
          /\ responses[1].status = 401
          /\ responses[1].code = "INVALID_TOKEN"
          /\ reqUser = NoUser
          /\ nextCalls = 0
          /\ providerCalls = <<>>

\* C16 witness: a token with the right key, issuer and expiry but another
\* audience was answered 401 INVALID_TOKEN.
C16_Witness ==
  /\ gate = "required"
  /\ gatePc = "done"
  /\ StartsWithBearer(authHeader)
  /\ Len(TokenPart(authHeader)) = 1
  /\ TokenPart(authHeader)[1] \in SignedTokens
  /\ TokenPart(authHeader)[1].key = ServerKey
  /\ TokenPart(authHeader)[1].iss = JwtIssuer
  /\ TokenPart(authHeader)[1].aud # JwtAudience
  /\ TokenPart(authHeader)[1].exp > now
  /\ responses[1].code = "INVALID_TOKEN"

\* C17: a missing or malformed signing key is detected when the process
\* starts and ends it there: the service never runs with such a key, and no
\* sign or verify call of a request fails on the format of the key.
C17_BadKeyFatalAtStartup ==
  /\ process = "running" => privateKey \notin {"", "malformed"}
  /\ \A i \in 1..Len(tokVerdicts) :
       ~Includes(tokVerdicts[i].error, "Invalid private key format")

(***************************************************************************)
(* Claims about the verifiers' email checks, checked under SpecExchange.   *)
(***************************************************************************)
\* the verifier of the provider was called with a token that has the
\* issuer's signature, the issuer, an allowed audience, an expiry in the
\* future and a subject, and the key set was at hand
SoundTokenVerified(p, key, issuer) ==
  /\ exPc = "done"
  /\ exBody.provider = p
  /\ Includes(exStages, "verify")
  /\ jwksReachable
  /\ exBody.idToken.kind = "jwt"
  /\ exBody.idToken.key = key
  /\ exBody.idToken.iss = issuer
  /\ exBody.idToken.aud \in audiences[p]
  /\ exBody.idToken.exp > now
  /\ exBody.idToken.sub # Absent

\* C18: the Google verifier checks email_verified only when the token has
\* an email claim: a sound token without email is accepted, and a sound
\* token with an email whose email_verified is not true is rejected and
\* answered 401 AUTH_FAILED.
C18_GoogleEmailCheckOnlyWithEmail ==
  SoundTokenVerified("google", GoogleKey, GoogleIssuer) =>
    /\ exBody.idToken.email = Absent => Includes(exStages, "mint")
    /\ (/\ exBody.idToken.email # Absent
        /\ exBody.idToken.email_verified \in {"bool:false", "str:false", Absent})
         => /\ ~Includes(exStages, "mint")
            /\ exResponses[1].status = 401
            /\ exResponses[1].code = "AUTH_FAILED"

\* email_verified as a boolean: a boolean as it is, the strings by their
\* word, absent as true
NormalizedFalse(v) == v \in {"bool:false", "str:false"}

\* C19: the Apple verifier normalizes email_verified to a boolean (absent
\* counts as true) and rejects a sound token exactly when it has an email
\* claim and the normalized value is false; a token without email claim is
\* accepted whatever email_verified is.
C19_AppleEmailNormalized ==
  SoundTokenVerified("apple", AppleKey, AppleIssuer) =>
    /\ IsEmailVerified(exBody.idToken.email_verified)
         = ~NormalizedFalse(exBody.idToken.email_verified)
    /\ ~Includes(exStages, "mint")
         <=> (/\ exBody.idToken.email # Absent
              /\ NormalizedFalse(exBody.idToken.email_verified))
    /\ ~Includes(exStages, "mint") => exResponses[1].code = "AUTH_FAILED"

\* C19 witness: an Apple token without email claim whose email_verified is
\* the string "false" was accepted.
C19_Witness ==
  /\ SoundTokenVerified("apple", AppleKey, AppleIssuer)
  /\ exBody.idToken.email = Absent
  /\ exBody.idToken.email_verified = "str:false"
  /\ Includes(exStages, "mint")

\* the token asserts its email as verified: the boolean true or the string
\* "true", and for Apple also an absent email_verified
AssertedVerified(p, v) ==
  \/ v \in {"bool:true", "str:true"}
  \/ p = "apple" /\ v = Absent

\* C20: for both providers and every email_verified value (true, false,
\* "true", "false", absent), an identity extracted from an accepted token
\* carries an email only if the token asserted that email as verified.
C20_NoUnverifiedEmailInIdentity ==
  (Includes(exStages, "mint") /\ exUserInfo.email # Absent) =>
    AssertedVerified(exBody.provider, exBody.idToken.email_verified)

\* the fixed issuer and the signing key of a provider
IssuerOf(p) == IF p = "google" THEN GoogleIssuer ELSE AppleIssuer
IssuerKeyOf(p) == IF p = "google" THEN GoogleKey ELSE AppleKey

\* C21: an identity token is accepted only if its audience is one of the
\* configured audience ids of the provider, its issuer is the provider's
\* fixed issuer and its signature is the issuer's; ids that are not set
\* are no audience.
C21_AudienceIssuerSignature ==
  /\ \A p \in {"google", "apple"} : Absent \notin audiences[p]
  /\ Includes(exStages, "mint") =>
       /\ exBody.idToken.aud \in audiences[exBody.provider]
       /\ exBody.idToken.iss = IssuerOf(exBody.provider)
       /\ exBody.idToken.key = IssuerKeyOf(exBody.provider)
  /\ (/\ exPc = "done"
      /\ Includes(exStages, "verify")
      /\ \/ exBody.idToken.aud \notin audiences[exBody.provider]
         \/ exBody.idToken.iss # IssuerOf(exBody.provider)
         \/ exBody.idToken.key # IssuerKeyOf(exBody.provider))
       => /\ ~Includes(exStages, "mint")
          /\ exResponses[1].code = "AUTH_FAILED"

\* C21 witness: with both Google client ids set, a token for the Android
\* id was accepted.
C21_Witness ==
  /\ audiences["google"] = {"client-ios", "client-android"}
  /\ exBody.provider = "google"
  /\ exBody.idToken.aud = "client-android"
  /\ Includes(exStages, "mint")

\* C21 witness of the rejection: with only the iOS id set, a token signed
\* by Google for the Android id was answered 401.
C21_WitnessRejected ==
  /\ exPc = "done"
  /\ audiences["google"] = {"client-ios"}
  /\ exBody.provider = "google"
  /\ exBody.idToken.aud = "client-android"
  /\ exBody.idToken.key = GoogleKey
  /\ exBody.idToken.iss = GoogleIssuer
  /\ exResponses[1].code = "AUTH_FAILED"

(***************************************************************************)
(* Claims about the key set cache, checked under SpecJwks.                 *)
(***************************************************************************)
\* the key lookups in the log, and whether the entry of a url was cleared
\* between two calls
JwksLookups == {i \in 1..Len(jwksLog) : jwksLog[i].op = "verify"}
ClearedBetween(i, j) ==
  \E k \in (i + 1)..(j - 1) :
    /\ jwksLog[k].op = "clear"
    /\ jwksLog[k].url \in {jwksLog[i].url, "all"}

\* C22: when the fetch of a key set fails, on a miss or after the time to
\* live, the key set fetched last for that issuer is served if there is
\* one: a lookup fails only if no key set was ever fetched for the issuer.
C22_StaleKeysServedOnFetchFailure ==
  \A i, j \in JwksLookups :
    (/\ i < j
     /\ jwksLog[i].url = jwksLog[j].url
     /\ jwksLog[i].ok
     /\ ~ClearedBetween(i, j))
      => jwksLog[j].ok

\* C23: every getJWKS call for a url made less than the time to live after
\* the entry of that url was created returns the client of that entry and
\* creates no new client, whatever calls for other urls lie in between.
C23_SameInstanceWithinTTL ==
  \A i, j \in JwksLookups :
    (/\ i < j
     /\ jwksLog[i].url = jwksLog[j].url
     /\ jwksLog[i].created
     /\ (jwksLog[j].t - jwksLog[i].t) * 1000 < CACHE_TTL
     /\ ~ClearedBetween(i, j))
      => /\ jwksLog[j].instance = jwksLog[i].instance
         /\ ~jwksLog[j].created
         /\ Len(jwksClients) < Len(jwksLog)

\* C23 witness: two calls for Google's url, the second one second before
\* the end of the time to live and after a call for Apple's url, returned
\* the same client.
C23_Witness ==
  /\ Len(jwksLog) = 3
  /\ jwksLog[1].op = "verify" /\ jwksLog[1].url = GoogleJwksUrl
  /\ jwksLog[2].op = "verify" /\ jwksLog[2].url = AppleJwksUrl
  /\ jwksLog[3].op = "verify" /\ jwksLog[3].url = GoogleJwksUrl
  /\ jwksLog[1].created
  /\ (jwksLog[3].t - jwksLog[1].t) * 1000 = CACHE_TTL - 1000
  /\ jwksLog[3].instance = jwksLog[1].instance

(***************************************************************************)
(* Claims about the reply routes, checked under SpecReply.                 *)
(***************************************************************************)
RECURSIVE UserTotalFrom(_, _)
\* the characters of the user-role messages from the i-th message on
UserTotalFrom(ms, i) ==
  IF i > Len(ms) THEN 0
  ELSE UserTotalFrom(ms, i + 1) + (IF ms[i].role = "user" THEN ms[i].len ELSE 0)

\* the handler of the route has run for the request
HandlerRan == handlerPc # "idle"

\* C24: a request whose user-role contents together are longer than
\* MAX_LETTER_CHARS is answered 400 CONTENT_TOO_LONG on both reply routes
\* and no provider is selected or invoked; system and assistant contents
\* and the injected system prompt do not count; a total of exactly
\* MAX_LETTER_CHARS passes the check.
C24_ContentCeiling ==
  HandlerRan =>
    /\ UserTotalFrom(reqBody.messages, 1) > MaxLetterChars =>
         /\ Len(responses) = 1
         /\ responses[1].status = 400
         /\ responses[1].code = "CONTENT_TOO_LONG"
         /\ providerCalls = <<>>
    /\ UserTotalFrom(reqBody.messages, 1) <= MaxLetterChars =>
         \/ /\ Len(providerCalls) = 1
            /\ UserTotalFrom(providerCalls[1].messages, 1)
                 = UserTotalFrom(reqBody.messages, 1)
         \/ /\ providerCalls = <<>>
            /\ reqBody.provider = "none" /\ configured = {}
            /\ responses[1].code # "CONTENT_TOO_LONG"

\* C24 witness: a system message of MAX_LETTER_CHARS characters and user
\* messages of exactly MAX_LETTER_CHARS characters together reached the
\* provider of the streaming route.
C24_Witness ==
  /\ HandlerRan
  /\ route = "stream"
  /\ \E i \in 1..Len(reqBody.messages) :
       reqBody.messages[i].role = "system"
         /\ reqBody.messages[i].len = MaxLetterChars
  /\ UserTotalFrom(reqBody.messages, 1) = MaxLetterChars
  /\ Len(providerCalls) = 1

\* C24 witness of the rejection: two user messages of one character above
\* the ceiling together were answered 400 CONTENT_TOO_LONG.
C24_WitnessRejected ==
  /\ HandlerRan
  /\ UserTotalFrom(reqBody.messages, 1) = MaxLetterChars + 1
  /\ responses[1].code = "CONTENT_TOO_LONG"

\* the place of a provider in the order OpenAI, Anthropic, local
Priority(p) == CASE p = "openai" -> 1 [] p = "anthropic" -> 2 [] OTHER -> 3

\* the request passed the content check and names no provider
UnnamedRequest ==
  /\ HandlerRan
  /\ UserTotalFrom(reqBody.messages, 1) <= MaxLetterChars
  /\ reqBody.provider = "none"

\* C25: when a request names no provider, the provider invoked is the first
\* configured one in the order OpenAI, Anthropic, local; when none is
\* configured, no provider is invoked and the answer is 503
\* SERVICE_UNAVAILABLE.
C25_FirstConfiguredProvider ==
  UnnamedRequest =>
    IF configured = {}
    THEN /\ providerCalls = <<>>
         /\ Len(responses) = 1
         /\ responses[1].status = 503
         /\ responses[1].code = "SERVICE_UNAVAILABLE"
    ELSE /\ Len(providerCalls) = 1
         /\ providerCalls[1].provider \in configured
         /\ \A q \in configured :
              Priority(providerCalls[1].provider) <= Priority(q)

\* C25, the part that holds: with Anthropic and the local provider
\* configured and none named, Anthropic was invoked.
C25_Witness ==
  /\ UnnamedRequest
  /\ configured = {"anthropic", "local"}
  /\ Len(providerCalls) = 1
  /\ providerCalls[1].provider = "anthropic"

\* the request passed validation and names a provider that is not configured
NamedUnconfigured ==
  /\ HandlerRan
  /\ SchemaOk(reqBody)
  /\ UserTotalFrom(reqBody.messages, 1) <= MaxLetterChars
  /\ reqBody.provider \in AIProviders
  /\ reqBody.provider \notin configured

\* C26: when a request names a provider that is not configured, both reply
\* routes answer 503 SERVICE_UNAVAILABLE once, no fetch is started or
\* settles, nothing is written to the response as an SSE event, and no
\* other provider is invoked, whichever providers are configured.
C26_NamedUnconfiguredIs503 ==
  NamedUnconfigured =>
    /\ handlerPc = "done"
    /\ Len(responses) = 1
    /\ responses[1].status = 503
    /\ responses[1].code = "SERVICE_UNAVAILABLE"
    /\ bodyState = "idle"
    /\ res = NoRes
    /\ \A i \in 1..Len(providerCalls) :
         providerCalls[i].provider = reqBody.provider

\* C26 witness: the streaming route was asked for the local provider while
\* only OpenAI and Anthropic were configured, and answered 503.
C26_Witness ==
  /\ NamedUnconfigured
  /\ route = "stream"
  /\ reqBody.provider = "local"
  /\ configured = {"openai", "anthropic"}
  /\ Len(responses) = 1
  /\ responses[1].status = 503

\* the texts an 'error' event carries when it repeats what the upstream
\* answered
UpstreamErrorTexts == {FetchErrorMessage("non2xx", d) : d \in UpstreamDetails}

\* the error text of a response repeats what the upstream answered
EchoesDetail(msg) ==
  \E d \in ReplyDetails :
    \E i \in 1..Len(msg) :
      i + Len(d) - 1 <= Len(msg) /\ SubSeq(msg, i, i + Len(d) - 1) = d

\* the codes an upstream failure may be answered with
UpstreamFailureCodes == {"OK", "VALIDATION_ERROR", "SERVICE_UNAVAILABLE",
                         "AI_ERROR", "STREAM_ERROR"}

\* C27: nothing sent to the client by a reply route carries text of the
\* upstream's error: no SSE event has the upstream's status and error body
\* as its content, no JSON response repeats them in its error text, and a
\* request that passed the content check is never answered with a code
\* other than SERVICE_UNAVAILABLE or a generic one.
C27_NoUpstreamTextToClient ==
  /\ \A i \in 1..Len(res.writes) : res.writes[i].content \notin UpstreamErrorTexts
  /\ \A i \in 1..Len(responses) : ~EchoesDetail(responses[i].error)
  /\ (HandlerRan /\ ~ContentTooLong(reqBody.messages)) =>
       \A i \in 1..Len(responses) : responses[i].code \in UpstreamFailureCodes

\* a 'connected' event was written before write i of the response
ConnectedBefore(i) ==
  \E j \in 1..(i - 1) : res.writes[j].type = "connected"

\* streamResponse was invoked for the request and has settled
StreamSettled ==
  route = "stream" /\ handlerPc = "done" /\ Len(providerCalls) = 1
    /\ providerCalls[1].provider \in configured

\* C28: a streaming request whose fetch is rejected, answered non-2xx or
\* answered without a body is answered 500 STREAM_ERROR as JSON and nothing
\* is written to the stream; an 'error' event is only ever written to a
\* response that already carries the 'connected' event.
C28_FailureBeforeHeadersIsJson ==
  /\ \A i \in 1..Len(res.writes) :
       res.writes[i].type = "error" => ConnectedBefore(i)
  /\ (StreamSettled /\ bodyState = "failed") =>
       /\ Len(responses) = 1
       /\ responses[1].status = 500
       /\ responses[1].code = "STREAM_ERROR"
       /\ res.writes = <<>>

\* a sequence without its element at index i
WithoutIndex(seq, i) == SubSeq(seq, 1, i - 1) \o SubSeq(seq, i + 1, Len(seq))

\* the provider without a system role was invoked and built its request
AnthropicRequested(i) ==
  /\ providerCalls[i].provider = "anthropic"
  /\ "anthropic" \in configured

\* C29: in the request the Anthropic provider builds, the system field is
\* the content of the first system message and the messages are all the
\* other messages of the input in their order, later system messages
\* included: nothing but the first system message is taken out.
C29_OnlyFirstSystemPromoted ==
  \A i \in 1..Len(providerCalls) :
    AnthropicRequested(i) =>
      LET input == providerCalls[i].messages
          f     == FindSystem(input)
      IN /\ f # 0
         /\ providerCalls[i].request.system = <<input[f].len>>
         /\ providerCalls[i].request.messages = WithoutIndex(input, f)

\* the members a published key may have: the RSA public key and metadata
PublicJwkMembers == {"kty", "n", "e", "alg", "use", "kid", "key_ops", "ext"}

\* C30: whenever the key of the service imports, GET /.well-known/jwks.json
\* answers {keys: [jwk]} with exactly one key whose use is 'sig' and alg is
\* 'RS256', whose members are public ones only (none of d, p, q, dp, dq,
\* qi), and under which the signature of the token signServerJWT issued
\* verifies, while that of a token signed by another key does not.
C30_PublishedKeyIsPublicAndVerifies ==
  \A i \in 1..Len(jwksResponses) :
    /\ GetPrivateKeyOk(privateKey) => jwksResponses[i].status = 200
    /\ jwksResponses[i].status = 200 =>
         /\ Len(jwksResponses[i].keys) = 1
         /\ LET jwk == jwksResponses[i].keys[1]
            IN /\ {"kty", "n", "e", "use", "alg"} \subseteq DOMAIN jwk
               /\ jwk["use"] = "sig"
               /\ jwk["alg"] = "RS256"
               /\ DOMAIN jwk \cap RsaPrivateMembers = {}
               /\ DOMAIN jwk \subseteq PublicJwkMembers
               /\ \A k \in 1..Len(tokIssued) :
                    /\ VerifiesUnder(jwk, tokIssued[k])
                    /\ ~VerifiesUnder(jwk, [tokIssued[k] EXCEPT !.key = "other-key"])

\* C30 witness: the key set was published and a token was issued by the
\* same process.
C30_Witness ==
  /\ Len(jwksResponses) = 1
  /\ jwksResponses[1].status = 200
  /\ Len(jwksResponses[1].keys) = 1
  /\ Len(tokIssued) = 1

\* a terminal event was written and the response ended
TerminalEnded ==
  /\ res.ended
  /\ \E i \in 1..Len(res.writes) : res.writes[i].type \in {"done", "error"}

\* C31: once a terminal event ('done' or 'error') was written and the
\* response ended, no step writes a further event to the response,
\* whichever upstream callback (data, end, error) fires afterwards.
C31_NoWriteAfterTerminal ==
  [][TerminalEnded => res'.writes = res.writes]_vars

\* the 'connected' event was sent on the response
ConnectedSent ==
  \E i \in 1..Len(res.writes) : res.writes[i].type = "connected"

\* the upstream body has finished: it emitted 'end' or 'error'
UpstreamFinished == bodyState \in {"ended", "errored"}

\* C32: a response on which 'connected' was sent is eventually ended, with
\* an upstream body that keeps emitting its events up to 'end' or 'error',
\* and in no state is the response still open after the upstream finished.
C32_ConnectedStreamIsEnded ==
  /\ [](UpstreamFinished => res.ended)
  /\ (ConnectedSent ~> res.ended)

\* C32 witness: the upstream failed after a chunk of a body without
\* terminator was relayed, and the response was ended.
C32_Witness ==
  /\ ConnectedSent
  /\ bodyState = "errored"
  /\ EventCount("chunk") = 1
  /\ EventCount("done") = 0
  /\ res.ended

\* the upstream answered the fetch with a 2xx status and a body
UpstreamAnswered == bodyState \in {"flowing", "ended", "errored"}

\* C33: 'connected' is written exactly once on a response whose upstream
\* answered with a 2xx status and a body, as the first event, before every
\* 'chunk', 'done' and 'error' of the relay callbacks; it is not written
\* before the upstream answered nor when the upstream did not answer so.
C33_ConnectedOnceAndFirst ==
  /\ UpstreamAnswered =>
       /\ EventCount("connected") = 1
       /\ res.writes[1].type = "connected"
  /\ ~UpstreamAnswered => EventCount("connected") = 0

\* C33 witness: a stream that relayed a chunk and finished, with
\* 'connected' first and 'done' last.
C33_Witness ==
  /\ bodyState = "ended"
  /\ Len(res.writes) = 3
  /\ res.writes[1].type = "connected"
  /\ res.writes[2].type = "chunk"
  /\ res.writes[3].type = "done"

\* the calls before call j that created the entry of the same url and were
\* not followed by a clearCache of it before j
LiveCreations(j) ==
  {i \in JwksLookups :
     /\ i < j
     /\ jwksLog[i].url = jwksLog[j].url
     /\ jwksLog[i].created
     /\ ~ClearedBetween(i, j)}

\* the age in milliseconds, at call j, of what call i created
AgeAt(i, j) == (jwksLog[j].t - jwksLog[i].t) * 1000

\* C34: no getJWKS call returns a key set whose entry is as old as the
\* TTL or older: a call made when every entry created for the url is at
\* least that old creates a new instance and binds the entry to it with
\* lastFetched = now, a call that creates none returns an instance created
\* less than the TTL before, and the entry of a url is the one instance
\* bound last.
C34_NeverServedAtOrAfterTTL ==
  /\ \A j \in JwksLookups :
       /\ (\A i \in LiveCreations(j) : AgeAt(i, j) >= CACHE_TTL)
            => /\ jwksLog[j].created
               /\ \A i \in 1..(j - 1) : jwksLog[i].instance # jwksLog[j].instance
       /\ ~jwksLog[j].created
            => \E i \in LiveCreations(j) :
                 /\ jwksLog[i].instance = jwksLog[j].instance
                 /\ AgeAt(i, j) < CACHE_TTL
  /\ \A u \in JwksUrls :
       jwksCache[u].cached =>
         \E j \in JwksLookups :
           /\ jwksLog[j].url = u /\ jwksLog[j].created
           /\ jwksCache[u].lastFetched = jwksLog[j].t * 1000
           /\ jwksInstance[u] = jwksLog[j].instance
           /\ \A k \in JwksLookups :
                (k > j /\ jwksLog[k].url = u) => ~jwksLog[k].created

\* C34 witness: a call for Google's url exactly the TTL after the call that
\* created the entry got a new instance.
C34_Witness ==
  \E i, j \in JwksLookups :
    /\ i < j
    /\ jwksLog[i].url = GoogleJwksUrl /\ jwksLog[j].url = GoogleJwksUrl
    /\ jwksLog[i].created /\ jwksLog[j].created
    /\ AgeAt(i, j) = CACHE_TTL
    /\ jwksLog[i].instance # jwksLog[j].instance
    /\ jwksCache[GoogleJwksUrl].lastFetched = jwksLog[j].t * 1000

\* the step is a call of the cache: the call it appended to the log
IsCacheCall == Len(jwksLog') = Len(jwksLog) + 1
LastCall == jwksLog'[Len(jwksLog')]

\* the entry of url u (key set instance and lastFetched) is as it was
EntryUnchanged(u) ==
  jwksCache'[u] = jwksCache[u] /\ jwksInstance'[u] = jwksInstance[u]

\* C35: a getJWKS(url) or clearCache(url) step leaves the entry of the
\* other url as it was; clearCache(url) removes the entry of url and
\* clearCache() removes every entry; a getJWKS for a url that has no entry
\* (none yet, or cleared) creates a new instance.
C35_CacheCallsAreLocalToUrl ==
  [][IsCacheCall =>
       /\ LastCall.url \in JwksUrls =>
            \A u \in JwksUrls \ {LastCall.url} : EntryUnchanged(u)
       /\ (LastCall.op = "clear" /\ LastCall.url \in JwksUrls) =>
            jwksCache'[LastCall.url] = NoEntry
       /\ (LastCall.op = "clear" /\ LastCall.url = "all") =>
            jwksCache' = EmptyCache
       /\ (LastCall.op = "verify" /\ ~jwksCache[LastCall.url].cached) =>
            /\ LastCall.created
            /\ LastCall.instance = Len(jwksClients) + 1
            /\ jwksInstance'[LastCall.url] = LastCall.instance
            /\ jwksCache'[LastCall.url].cached
    ]_vars

\* C35 witness: Google's entry was created, then Apple's entry was created
\* and cleared, and Google's entry is still the one created first.
C35_Witness ==
  /\ Len(jwksLog) = 3
  /\ jwksLog[1].op = "verify" /\ jwksLog[1].url = GoogleJwksUrl
  /\ jwksLog[2].op = "verify" /\ jwksLog[2].url = AppleJwksUrl
  /\ jwksLog[3].op = "clear" /\ jwksLog[3].url = AppleJwksUrl
  /\ jwksCache[GoogleJwksUrl].cached
  /\ jwksCache[GoogleJwksUrl].lastFetched = jwksLog[1].t * 1000
  /\ jwksInstance[GoogleJwksUrl] = jwksLog[1].instance
  /\ ~jwksCache[AppleJwksUrl].cached

\* the verification has obtained a key set
HasKeySet(v) == jwksHeld[v].pc \in {"holding", "done"}

\* C36: with verifications in flight together and the TTL expiring between
\* them, every getJWKS call is one step that needs no network and is never
\* refused because of another verification, it returns a key set of the
\* url asked for and raises no error, the cache entry is always bound to
\* one whole key set, and a verification completes with the key set it
\* obtained, also when the entry was bound to a newer one meanwhile.
C36_RefreshIsAtomicAndNonBlocking ==
  /\ \A v \in Verifications :
       /\ HasKeySet(v) =>
            /\ jwksHeld[v].instance \in 1..Len(jwksClients)
            /\ jwksClients[jwksHeld[v].instance].url = jwksHeld[v].url
       /\ jwksHeld[v].pc = "done" => jwksHeld[v].used = jwksHeld[v].instance
       /\ jwksHeld[v].pc = "idle" => ENABLED ObtainKeySet(v)
  /\ \A u \in JwksUrls :
       jwksCache[u].cached =>
         /\ jwksInstance[u] \in 1..Len(jwksClients)
         /\ jwksClients[jwksInstance[u]].url = u

\* C36 witness: a verification obtained Google's key set, the TTL expired
\* and another verification rebound the entry to a new key set, and the
\* first verification then completed with the key set it had obtained.
C36_Witness ==
  /\ jwksHeld["v1"].pc = "done"
  /\ jwksHeld["v1"].url = GoogleJwksUrl
  /\ jwksHeld["v1"].used = 1
  /\ jwksHeld["v1"].ok
  /\ jwksHeld["v2"].pc = "holding"
  /\ jwksHeld["v2"].url = GoogleJwksUrl
  /\ jwksHeld["v2"].instance = 2
  /\ jwksInstance[GoogleJwksUrl] = 2

\* the calls that minted a token
Minted == {i \in 1..Len(tokVerdicts) :
             tokVerdicts[i].op = "sign" /\ tokVerdicts[i].error = NoError}

\* C37: the expiresIn answered with a minted token equals exp minus iat of
\* that token, and every minted token carries iat = the instant of
\* signing, exp = iat + the configured lifetime, and the configured issuer
\* and audience.
C37_ExpiresInIsExpMinusIat ==
  \A i \in Minted :
    LET token == tokVerdicts[i].token IN
      /\ tokVerdicts[i].expiresIn = token.exp - token.iat
      /\ token.iat = tokVerdicts[i].t
      /\ token.exp = token.iat + ExpiresIn
      /\ token.iss = JwtIssuer
      /\ token.aud = JwtAudience

\* C37 witness: a token was minted after the clock had advanced past the
\* start, so that iat is not zero and exp differs from the lifetime.
C37_Witness ==
  \E i \in Minted :
    /\ tokVerdicts[i].t > 0
    /\ tokVerdicts[i].token.iat = tokVerdicts[i].t
    /\ tokVerdicts[i].expiresIn = ExpiresIn

\* the sequence has a message of role system
HasSystem(ms) == \E i \in 1..Len(ms) : ms[i].role = "system"

\* the default system prompt as a message
DefaultPrompt == [role |-> "system", len |-> SystemPromptChars]

\* C38: the messages a provider is called with are the request's messages
\* unchanged when these contain a system message, and the default system
\* prompt followed by the request's messages in their order otherwise;
\* applying addSystemPrompt to them again changes nothing, and they always
\* contain a system message.
C38_SystemPromptAddedOnce ==
  \A i \in 1..Len(providerCalls) :
    LET input  == reqBody.messages
        output == providerCalls[i].messages
    IN /\ HasSystem(input) => output = input
       /\ ~HasSystem(input) =>
            /\ Len(output) = Len(input) + 1
            /\ output[1] = DefaultPrompt
            /\ Tail(output) = input
       /\ AddSystemPrompt(output) = output
       /\ HasSystem(output)

\* C38 witness: a request of two messages without system message reached
\* the provider with the default prompt first.
C38_Witness ==
  /\ Len(providerCalls) = 1
  /\ Len(reqBody.messages) = 2
  /\ ~HasSystem(reqBody.messages)
  /\ Len(providerCalls[1].messages) = 3
  /\ providerCalls[1].messages[1] = DefaultPrompt

(***************************************************************************)
(* Claims about the mobile client.                                         *)
(***************************************************************************)
\* C39: whenever the AuthState says isAuthenticated, the ApiClient holds a
\* server token, after any sequence of sign-in, sign-out and API calls,
\* calls answered 401 included.
C39_AuthenticatedImpliesToken ==
  mState.isAuthenticated => ApiClientIsAuthenticated

\* C40: when a server token is in the secure storage at the start of the
\* app and the server is reachable, the AuthNotifier eventually sets
\* isAuthenticated, however the load of the configuration and the check of
\* the AuthNotifier interleave.
C40_StoredTokenAuthenticates ==
  (mLoadPc = "notcreated" /\ mStorage = "jwt" /\ mServerUp)
    ~> mState.isAuthenticated

=============================================================================
